---- MODULE Spec2Model ----
(***************************************************************************)
(* A model of the releasability action (SonarSource/gh-action_releasability)*)
(*                                                                         *)
(* The state machine follows one release-gating run of                     *)
(* src/src/main.py:do_releasability_checks: the ReleasabilityService is    *)
(* constructed, the version is validated, the trigger message is published *)
(* to SNS, the registered inline checks are executed, the SQS result queue *)
(* is polled until every expected check reported or the timeout elapsed,   *)
(* and the report and the status are written as action outputs.            *)
(* The environment are the lambda workers, SQS redelivery and other runs   *)
(* that write to the shared result queue.                                  *)
(***************************************************************************)
EXTENDS Integers, Sequences, FiniteSets, TLC

(***************************************************************************)
(* Bounds of the model                                                     *)
(***************************************************************************)
\* Messages a run finds on the queue beyond the one result of each lambda:
\* redelivered duplicates, ACKs, results of other runs, unknown check names.
MaxExtra == 1
\* Messages that can sit on the result queue at the same time.
MaxQueue == 2
\* Granularity of the wall clock, in seconds.
TickSeconds == 400

(***************************************************************************)
(* Program constants                                                       *)
(***************************************************************************)
FETCH_CHECK_RESULT_TIMEOUT_SECONDS == 600
SQS_MAX_POLLED_MESSAGES_AT_A_TIME == 10
SQS_VISIBILITY_TIMEOUT == 0

EXPECTED_RELEASABILITY_CHECK_NAMES ==
    { "CheckDependencies", "QA", "Jira", "CheckPeacheeLanguagesStatistics",
      "QualityGate", "ParentPOM", "GitHub", "CheckManifestValues" }

ACK_TYPE == "ACK"

CHECK_PASSED == "PASSED"
CHECK_NOT_RELEVANT == "NOT_RELEVANT"
CHECK_ERROR == "ERROR"
CHECK_FAILED == "FAILED"

SUCCESS_PREFIX == "success"
CHECK_OPTIONAL_PREFIX == "optional"
FAILURE_PREFIX == "failure"
UNKNOWN_PREFIX == "unknown"

\* Python's None
None == "None"

(***************************************************************************)
(* VersionHelper (src/src/utils/version_helper.py).  A string is a         *)
(* sequence of one-character strings.                                      *)
(***************************************************************************)
Digits == { "0", "1", "2", "3", "4", "5", "6", "7", "8", "9" }

Letters ==
    { "a", "b", "c", "d", "e", "f", "g", "h", "i", "j", "k", "l", "m",
      "n", "o", "p", "q", "r", "s", "t", "u", "v", "w", "x", "y", "z",
      "A", "B", "C", "D", "E", "F", "G", "H", "I", "J", "K", "L", "M",
      "N", "O", "P", "Q", "R", "S", "T", "U", "V", "W", "X", "Y", "Z" }

\* The positions (numbers of characters consumed) reachable from a position
\* of P by one or more characters of the class cls: the regex cls+.
Plus(s, P, cls) ==
    { j \in 1..Len(s) :
        \E i \in P : i < j /\ \A k \in (i + 1)..j : s[k] \in cls }

\* The positions reachable from P by the one character of chars.
Lit(s, P, chars) ==
    { i + 1 : i \in { p \in P : p < Len(s) /\ s[p + 1] \in chars } }

\* VERSION_REGEX up to and including the separator [.+]; the result is the
\* set of positions at which the build-number group can start.
VersionPrefixEnds(s) ==
    LET p0 == {0}
        p1 == p0 \cup Lit(s, Plus(s, p0, Letters), {"-"})
        p2 == Plus(s, p1, Digits)
        p3 == Plus(s, Lit(s, p2, {"."}), Digits)
        p4 == Plus(s, Lit(s, p3, {"."}), Digits)
        p5 == p4 \cup Plus(s, Lit(s, Lit(s, p4, {"-"}), {"M"}), Digits)
    IN  Lit(s, p5, {".", "+"})

\* The end of the match: $ matches at the end of the string and before a
\* newline that ends the string.
Ends(s) ==
    {Len(s)} \cup (IF Len(s) > 0 /\ s[Len(s)] = "\n" THEN {Len(s) - 1} ELSE {})

\* re.match(VERSION_REGEX, version): the pairs <<start, end>> of group 1.
VersionMatches(s) ==
    { m \in VersionPrefixEnds(s) \X Ends(s) :
        /\ m[1] < m[2]
        /\ \A k \in (m[1] + 1)..m[2] : s[k] \in Digits }

\* validate_version accepting every string
ValidateNothing(version) == TRUE

\* validate_version raises ValueError unless the regex matches.
validate_version(version) == VersionMatches(version) # {}

DigitValue(c) ==
    CASE c = "0" -> 0 [] c = "1" -> 1 [] c = "2" -> 2 [] c = "3" -> 3
      [] c = "4" -> 4 [] c = "5" -> 5 [] c = "6" -> 6 [] c = "7" -> 7
      [] c = "8" -> 8 [] c = "9" -> 9

RECURSIVE ToInt(_)
ToInt(ds) ==
    IF ds = <<>> THEN 0
    ELSE 10 * ToInt(SubSeq(ds, 1, Len(ds) - 1)) + DigitValue(ds[Len(ds)])

\* the value that stands for a raised ValueError
ValueError == -1

\* extract_build_number: validate_version, then int(match.group(1))
extract_build_number(version) ==
    IF VersionMatches(version) = {} THEN ValueError
    ELSE LET m == CHOOSE x \in VersionMatches(version) : TRUE
         IN  ToInt(SubSeq(version, m[1] + 1, m[2]))

(***************************************************************************)
(* ReleasabilityCheckResult                                                *)
(* (src/src/releasability/releasability_check_result.py)                   *)
(***************************************************************************)
\* has_passed with a default arm that passes
HasPassedByDefault(state) == state \notin { CHECK_FAILED, CHECK_ERROR }

has_passed(state) ==
    CASE state = CHECK_PASSED -> TRUE
      [] state = CHECK_NOT_RELEVANT -> TRUE
      [] state = CHECK_FAILED -> FALSE
      [] state = CHECK_ERROR -> FALSE
      [] OTHER -> FALSE

\* ReleasabilityCheckResult.__init__ (details are not modelled)
ReleasabilityCheckResult(name, state, message) ==
    [ name |-> name, state |-> state, message |-> message,
      passed |-> has_passed(state) ]

_get_prefix(state) ==
    CASE state = CHECK_PASSED -> SUCCESS_PREFIX
      [] state = CHECK_NOT_RELEVANT -> CHECK_OPTIONAL_PREFIX
      [] state = CHECK_FAILED -> FAILURE_PREFIX
      [] state = CHECK_ERROR -> FAILURE_PREFIX
      [] OTHER -> UNKNOWN_PREFIX

\* ReleasabilityCheckResult.__str__ : '<prefix> <name> <note>'
ResultStr(r) ==
    [ prefix |-> _get_prefix(r.state), name |-> r.name,
      note |-> IF r.message # None THEN r.message ELSE "" ]

(***************************************************************************)
(* ReleasabilityChecksReport                                               *)
(* (releasability/releasability_checks_report.py, modelled from its use in *)
(* main.py and the service: an ordered collection of check results)        *)
(***************************************************************************)
ReleasabilityChecksReport(check_results) == check_results

\* contains_error(): some contained result has not passed
contains_error(report) == \E i \in 1..Len(report) : ~report[i].passed

\* __str__: the results' textual forms, one per line
ReportStr(report) == [ i \in 1..Len(report) |-> ResultStr(report[i]) ]

\* utils/timeout.py has_exceeded_timeout(start, timeout), as _get_check_results
\* uses it: the wall clock is more than timeout seconds past start.
has_exceeded_timeout(now, start, timeout) == now - start > timeout

(***************************************************************************)
(* CheckRegistry (src/src/releasability/check_registry.py)                 *)
(***************************************************************************)
\* An inline check is identified by its class; its name property gives the
\* key it is registered under.
CheckLicensesCheck == [ name |-> "CheckLicenses", class |-> "CheckLicenses" ]
TestCheck == [ name |-> "TestCheck", class |-> "MockInlineCheck" ]

\* CheckRegistry.__init__
NewRegistry ==
    [ lambda_checks |->
          { "CheckDependencies", "QA", "Jira", "CheckPeacheeLanguagesStatistics",
            "QualityGate", "ParentPOM", "GitHub", "CheckManifestValues" },
      inline_checks |-> << >> ]

\* self.inline_checks[check.name] = check
register_inline_check(registry, check) ==
    [ registry EXCEPT !.inline_checks =
        [ n \in (DOMAIN registry.inline_checks) \cup {check.name} |->
            IF n = check.name THEN check ELSE registry.inline_checks[n] ] ]

get_inline_check_names(registry) == DOMAIN registry.inline_checks

get_inline_check(registry, name) == registry.inline_checks[name]

\* ReleasabilityService._register_inline_checks
RegisterInlineChecks(registry) == register_inline_check(registry, CheckLicensesCheck)

(***************************************************************************)
(* What an inline check's execute can do                                   *)
(***************************************************************************)
\* CheckLicenses.execute catches every exception and returns a result named
\* CheckLicenses that is PASSED (bypassed or compliant), FAILED or ERROR.
CheckLicensesOutcomes ==
    { [ raises |-> FALSE, state |-> CHECK_PASSED, message |-> "bypassed" ],
      [ raises |-> FALSE, state |-> CHECK_FAILED, message |-> "not compliant" ],
      [ raises |-> FALSE, state |-> CHECK_ERROR, message |-> "License check error" ] }

\* Any other InlineCheck (the tests' MockInlineCheck and FailingCheck):
\* execute returns a result with the check's name, or raises.
MockOutcomes ==
    { [ raises |-> FALSE, state |-> CHECK_PASSED, message |-> "Mock result" ],
      [ raises |-> TRUE, state |-> None, message |-> "Test error" ] }

ExecuteOutcomes(check) ==
    IF check.class = "CheckLicenses" THEN CheckLicensesOutcomes ELSE MockOutcomes

(***************************************************************************)
(* State                                                                   *)
(***************************************************************************)
VARIABLES
    pc,                      \* position of do_releasability_checks
    version,                 \* INPUT_VERSION
    skip_lambda_tests,       \* INPUT_SKIP_LAMBDA_TESTS
    check_registry,          \* ReleasabilityService.check_registry
    publishes,               \* the calls of sns.publish, in order
    correlation_id,          \* the request identifier of this run, or None
    inline_todo,             \* the inline check names the for loop has yet to visit
    inline_results,          \* execute_inline_checks: results
    checks_awaiting_result,  \* _get_check_results: checks_awaiting_result
    received_check_results,  \* _get_check_results: received_check_results
    unfiltered_messages,     \* _fetch_filtered_check_results: the batch last received
    clock,                   \* seconds of wall clock since _get_check_results began
    queue,                   \* the messages on ReleasabilityResultQueue
    next_worker,             \* the lambdas that have published their result
    extras,                  \* the number of further messages delivered
    report,                  \* the ReleasabilityChecksReport, or <<>> before it is built
    logs,                    \* the values given to set_output_logs
    check_outputs,           \* the (name, value) pairs given to set_output
    status,                  \* the values given to set_output_status
    exception                \* the exception do_releasability_checks caught

\* The state of the programs and libraries that are run on their own: the
\* VersionHelper, the releasability-status action, the SCA exception manager
\* and the SCA comparison engine.
VARIABLES
    call,                    \* the function called and its arguments
    ret,                     \* what the call returned, raised or wrote as outputs
    files,                   \* .sca-exceptions/*.json under the repository root
    github,                  \* what the GitHub client finds for the repository
    manager,                 \* the SCAExceptionManager last constructed
    added,                   \* the names given to add_false_positive/_negative
    hash_order,              \* the iteration order of the process's string sets
    comparisons              \* the results of compare_with_exceptions, in order

\* The state of the license check and of a second run on the result queue.
VARIABLES
    extractor,               \* the LicenseExtractor of the LPSValidator in use
    scratch,                 \* the directories made by tempfile.mkdtemp, and whether
                             \* the process runs as the superuser
    other_run                \* the polling loop of another run of the action

main_vars ==
    << pc, version, skip_lambda_tests, check_registry, publishes, correlation_id,
       inline_todo, inline_results, checks_awaiting_result, received_check_results,
       unfiltered_messages, clock, queue, next_worker, extras,
       report, logs, check_outputs, status, exception >>

aux_vars == << extractor, scratch, other_run >>

lib_vars ==
    << call, ret, files, github, manager, added, hash_order, comparisons, aux_vars >>

vars == << main_vars, lib_vars >>

\* nothing was called / no manager was constructed
NoCall == [ op |-> "none" ]
NoManager == [ constructed |-> FALSE ]

\* LicenseExtractor.__init__
NewExtractor == [ temp_dir |-> None, non_compliant_inner_archives |-> << >> ]

\* no directory was made yet
NoScratch == [ made |-> 0, left |-> {}, superuser |-> FALSE ]

\* no other run polls the queue
NoOtherRun == [ polling |-> FALSE ]

IdleAux ==
    /\ extractor = NewExtractor
    /\ scratch = NoScratch
    /\ other_run = NoOtherRun

\* do_releasability_checks alone: none of the libraries' state is in use
IdleLib ==
    /\ call = NoCall
    /\ ret = NoCall
    /\ files = << >>
    /\ github = << >>
    /\ manager = NoManager
    /\ added = << >>
    /\ hash_order = << >>
    /\ comparisons = << >>
    /\ IdleAux

(***************************************************************************)
(* Inputs                                                                  *)
(***************************************************************************)
\* "1.0.0.123", the version the tests use
ValidVersion == << "1", ".", "0", ".", "0", ".", "1", "2", "3" >>

\* "1.2.3" and "42.2", which the tests expect to be rejected
MalformedVersions == { << "1", ".", "2", ".", "3" >>, << "4", "2", ".", "2" >> }

Versions == {ValidVersion} \cup MalformedVersions

\* str(uuid.uuid4()) of this run, and the request identifier of another run
ThisRun == "uuid-1"
OtherRun == "uuid-2"

\* The order in which the lambdas publish their results.  The polling code
\* treats the names alike (membership and removal only), so one order stands
\* for all of them; messages still overtake one another on the queue.
WorkerOrder ==
    << "CheckDependencies", "QA", "Jira", "CheckPeacheeLanguagesStatistics",
       "QualityGate", "ParentPOM", "GitHub", "CheckManifestValues" >>

\* 'message' key absent from a payload
Absent == "<absent>"

\* The result each lambda publishes for this run.  Every other outcome of a
\* check reaches the run as one of the further messages below, which may
\* arrive before the lambda's own result and are then the ones recorded.
WorkerTypes == { CHECK_PASSED }

\* The further messages: for this run and an expected check, of any type
\* (also an unknown one); for this run and a name that is not expected; and
\* of another run that shares the queue.
ExtraTypes ==
    { CHECK_PASSED, CHECK_NOT_RELEVANT, CHECK_FAILED, CHECK_ERROR, ACK_TYPE, "SKIPPED" }

ExtraMessages ==
    ({ThisRun} \X {"CheckDependencies"} \X ExtraTypes)
      \cup { << ThisRun, "Unknown", CHECK_FAILED >> }
      \cup ({OtherRun} \X {"CheckManifestValues"} \X { CHECK_FAILED, ACK_TYPE })

NoException == [ type |-> None ]

(***************************************************************************)
(* ReleasabilityService: polling helpers                                   *)
(***************************************************************************)
_get_checks == EXPECTED_RELEASABILITY_CHECK_NAMES

\* match_correlation_id accepting the messages of every run
MatchAnyRun(msg, cid) == TRUE

\* ReleasabilityService.match_correlation_id
match_correlation_id(msg, cid) == msg.requestUUID = cid

\* not_an_ack_message letting ACK messages through
AckIsRelevant(msg) == TRUE

not_an_ack_message(msg) == msg.type # ACK_TYPE

\* the subsequence of q at the indices S
Pick(q, S) ==
    LET F[i \in 0..Len(q)] ==
          IF i = 0 THEN << >>
          ELSE IF i \in S THEN Append(F[i - 1], q[i]) ELSE F[i - 1]
    IN  F[Len(q)]

\* sqs.receive_message(MaxNumberOfMessages, VisibilityTimeout = 0): some of the
\* messages on the queue, at most MaxNumberOfMessages; they stay visible.
Receivable(q) ==
    { Pick(q, S) : S \in { T \in SUBSET (1..Len(q)) :
                             Cardinality(T) <= SQS_MAX_POLLED_MESSAGES_AT_A_TIME } }

\* current_messages without the filter: every fetched message is consumed
StealAndDrop(unfiltered, cid) == unfiltered

\* list(filter(lambda msg: match_correlation_id(msg, correlation_id), unfiltered))
current_messages(unfiltered, cid) ==
    SelectSeq(unfiltered, LAMBDA msg : match_correlation_id(msg, cid))

\* list(filter(not_an_ack_message, current_messages))
relevant_messages(current) == SelectSeq(current, not_an_ack_message)

\* _delete_messages: delete_message for the receipt handle of each message
_delete_messages(q, messages) ==
    SelectSeq(q, LAMBDA m : \A i \in 1..Len(messages) : messages[i].id # m.id)

\* RecordResults without the test 'check_name in checks_awaiting_result'
RecordResultsEveryMessage(filtered, awaiting, received) ==
    LET F[i \in 0..Len(filtered)] ==
          IF i = 0 THEN << awaiting, received >>
          ELSE << F[i - 1][1] \ {filtered[i].checkName},
                  Append(F[i - 1][2],
                         [ name |-> filtered[i].checkName, state |-> filtered[i].type,
                           message |-> None, passed |-> FALSE ]) >>
    IN  F[Len(filtered)]

\* The for loop of _get_check_results over the filtered messages:
\* <<checks_awaiting_result, received_check_results>> after it.
RecordResults(filtered, awaiting, received) ==
    LET F[i \in 0..Len(filtered)] ==
          IF i = 0 THEN << awaiting, received >>
          ELSE LET message_payload == filtered[i]
                   check_name == message_payload.checkName
                   before == F[i - 1]
               IN  IF check_name \in before[1]
                   THEN << before[1] \ {check_name},
                           Append(before[2],
                                  ReleasabilityCheckResult(
                                      message_payload.checkName,
                                      message_payload.type,
                                      IF message_payload.message # Absent
                                      THEN message_payload.message ELSE None)) >>
                   ELSE before
    IN  F[Len(filtered)]

\* CouldNotRetrieve naming every expected check instead of the awaited ones
CouldNotRetrieveNamesAll(received, awaiting) ==
    [ type |-> "CouldNotRetrieveReleasabilityCheckResultsException",
      received |-> Len(received), expected |-> Cardinality(EXPECTED_RELEASABILITY_CHECK_NAMES),
      missing |-> EXPECTED_RELEASABILITY_CHECK_NAMES ]

\* the text of CouldNotRetrieveReleasabilityCheckResultsException
CouldNotRetrieve(received, awaiting) ==
    [ type |-> "CouldNotRetrieveReleasabilityCheckResultsException",
      received |-> Len(received), expected |-> Cardinality(_get_checks),
      missing |-> awaiting ]

\* _build_sns_request
_build_sns_request(cid, ver) ==
    [ uuid |-> cid, version |-> ver,
      artifactoryBuildNumber |-> extract_build_number(ver) ]

(***************************************************************************)
(* main.do_releasability_checks                                            *)
(***************************************************************************)
Init ==
    /\ pc = "start"
    /\ version \in Versions
    /\ skip_lambda_tests \in BOOLEAN
    /\ check_registry = RegisterInlineChecks(NewRegistry)
    /\ publishes = << >>
    /\ correlation_id = None
    /\ inline_todo = {}
    /\ inline_results = << >>
    /\ checks_awaiting_result = {}
    /\ received_check_results = << >>
    /\ unfiltered_messages = << >>
    /\ clock = 0
    /\ queue = << >>
    /\ next_worker = 0
    /\ extras = 0
    /\ report = << >>
    /\ logs = << >>
    /\ check_outputs = << >>
    /\ status = << >>
    /\ exception = NoException
    /\ IdleLib

env_vars == << queue, next_worker, extras >>
poll_vars ==
    << checks_awaiting_result, received_check_results, unfiltered_messages, clock >>
out_vars == << report, logs, check_outputs, status, exception >>
input_vars == << version, skip_lambda_tests >>

\* except Exception as ex: error(ex); set_output_status("1"); sys.exit(1)
Fail(ex) ==
    /\ exception' = ex
    /\ status' = Append(status, "1")
    /\ pc' = "done"
    /\ UNCHANGED << report, logs, check_outputs >>

\* the outputs 'releasability<name>' of the checks of a report
CheckOutputs(rep) ==
    [ i \in 1..Len(rep) |-> << "releasability", rep[i].name, rep[i].state >> ]

\* set_output_logs, set_output per check, set_output_status
WriteOutputs(rep) ==
    /\ report' = rep
    /\ logs' = Append(logs, ReportStr(rep))
    /\ check_outputs' = check_outputs \o CheckOutputs(rep)
    /\ status' = Append(status, IF contains_error(rep) THEN "1" ELSE "0")
    /\ pc' = "done"
    /\ UNCHANGED exception

\* A caller registers a further inline check on the constructed service, as
\* the tests do before they drive execute_inline_checks themselves; the
\* action's own run holds the checks of _register_inline_checks only.
RegisterInlineCheck ==
    /\ pc = "start"
    /\ skip_lambda_tests
    /\ TestCheck.name \notin get_inline_check_names(check_registry)
    /\ check_registry' = register_inline_check(check_registry, TestCheck)
    /\ UNCHANGED << pc, lib_vars, input_vars, publishes, correlation_id, inline_todo,
                    inline_results, poll_vars, env_vars, out_vars >>

\* start_lambda_checks: validate_version raises ValueError
InvalidVersion ==
    /\ pc = "start"
    /\ ~skip_lambda_tests
    /\ ~validate_version(version)
    /\ Fail([ type |-> "ValueError" ])
    /\ UNCHANGED << lib_vars, input_vars, check_registry, publishes, correlation_id,
                    inline_todo, inline_results, poll_vars, env_vars >>

\* PublishFails with the error swallowed: the inline checks still execute
PublishFailsSwallowed ==
    /\ pc = "start"
    /\ ~skip_lambda_tests
    /\ validate_version(version)
    /\ publishes' = Append(publishes, _build_sns_request(ThisRun, version))
    /\ exception' = [ type |-> "PublishError" ]
    /\ inline_todo' = get_inline_check_names(check_registry)
    /\ pc' = "inline"
    /\ UNCHANGED << lib_vars, input_vars, check_registry, correlation_id, inline_results,
                    poll_vars, env_vars, report, logs, check_outputs, status >>

\* start_lambda_checks: sns.publish raises
PublishFails ==
    /\ pc = "start"
    /\ ~skip_lambda_tests
    /\ validate_version(version)
    /\ publishes' = Append(publishes, _build_sns_request(ThisRun, version))
    /\ Fail([ type |-> "PublishError" ])
    /\ UNCHANGED << lib_vars, input_vars, check_registry, correlation_id,
                    inline_todo, inline_results, poll_vars, env_vars >>

\* start_lambda_checks returns the correlation id; execute_inline_checks begins
PublishSucceeds ==
    /\ pc = "start"
    /\ ~skip_lambda_tests
    /\ validate_version(version)
    /\ publishes' = Append(publishes, _build_sns_request(ThisRun, version))
    /\ correlation_id' = ThisRun
    /\ inline_todo' = get_inline_check_names(check_registry)
    /\ pc' = "inline"
    /\ UNCHANGED << lib_vars, input_vars, check_registry, inline_results, poll_vars,
                    env_vars, out_vars >>

\* skip_lambda_tests: execute_inline_checks begins, nothing is published
SkipLambdaChecks ==
    /\ pc = "start"
    /\ skip_lambda_tests
    /\ inline_todo' = get_inline_check_names(check_registry)
    /\ pc' = "inline"
    /\ UNCHANGED << lib_vars, input_vars, check_registry, publishes, correlation_id,
                    inline_results, poll_vars, env_vars, out_vars >>

\* the result one iteration of execute_inline_checks appends
InlineResult(check_name, outcome) ==
    IF outcome.raises
    THEN ReleasabilityCheckResult(check_name, CHECK_ERROR, outcome.message)
    ELSE ReleasabilityCheckResult(get_inline_check(check_registry, check_name).name,
                                  outcome.state, outcome.message)

\* InlineRest with an exception that ends the loop
InlineRestAbort(todo, check_name, outcome) ==
    IF outcome.raises THEN {} ELSE todo \ {check_name}

\* the names the for loop has yet to visit after visiting check_name
InlineRest(todo, check_name, outcome) == todo \ {check_name}

\* one iteration of the for loop of execute_inline_checks
ExecuteInlineCheck ==
    /\ pc = "inline"
    /\ \E check_name \in inline_todo :
         \E outcome \in ExecuteOutcomes(get_inline_check(check_registry, check_name)) :
            /\ inline_results' = Append(inline_results, InlineResult(check_name, outcome))
            /\ inline_todo' = InlineRest(inline_todo, check_name, outcome)
    /\ UNCHANGED << pc, lib_vars, input_vars, check_registry, publishes, correlation_id,
                    poll_vars, env_vars, out_vars >>

\* skip_lambda_tests: the report holds the inline results only
ReportInlineOnly ==
    /\ pc = "inline"
    /\ inline_todo = {}
    /\ skip_lambda_tests
    /\ WriteOutputs(ReleasabilityChecksReport(inline_results))
    /\ UNCHANGED << lib_vars, input_vars, check_registry, publishes, correlation_id,
                    inline_todo, inline_results, poll_vars, env_vars >>

\* get_combined_report -> _get_check_results: the state before the loop
StartPolling ==
    /\ pc = "inline"
    /\ inline_todo = {}
    /\ ~skip_lambda_tests
    /\ checks_awaiting_result' = _get_checks
    /\ received_check_results' = << >>
    /\ clock' = 0
    /\ pc' = "poll"
    /\ UNCHANGED << lib_vars, input_vars, check_registry, publishes, correlation_id,
                    inline_todo, inline_results, unfiltered_messages,
                    env_vars, out_vars >>

\* LoopCondition without the timeout
LoopConditionNoTimeout(awaiting, now) == Cardinality(awaiting) > 0

\* while len(checks_awaiting_result) > 0 and not has_exceeded_timeout(now, ...)
LoopCondition(awaiting, now) ==
    /\ Cardinality(awaiting) > 0
    /\ ~has_exceeded_timeout(now, 0, FETCH_CHECK_RESULT_TIMEOUT_SECONDS)

\* One iteration of the loop: _fetch_check_results receives a batch,
\* _fetch_filtered_check_results keeps the messages of this run and deletes
\* them, and the loop body records the ones that are no ACK.
FetchCheckResults ==
    /\ pc = "poll"
    /\ LoopCondition(checks_awaiting_result, clock)
    /\ \E batch \in Receivable(queue) :
         LET current == current_messages(batch, correlation_id)
             after == RecordResults(relevant_messages(current),
                                    checks_awaiting_result, received_check_results)
         IN  /\ unfiltered_messages' = batch
             /\ queue' = _delete_messages(queue, current)
             /\ checks_awaiting_result' = after[1]
             /\ received_check_results' = after[2]
    /\ UNCHANGED << pc, lib_vars, input_vars, check_registry, publishes, correlation_id,
                    inline_todo, inline_results, clock, next_worker, extras, out_vars >>

\* get_combined_report: inline_results + lambda_results
CombinedReport(inline, lambda) == ReleasabilityChecksReport(inline \o lambda)

\* the loop ended with nothing awaited: the results are returned and reported
Complete ==
    /\ pc = "poll"
    /\ ~LoopCondition(checks_awaiting_result, clock)
    /\ Cardinality(checks_awaiting_result) = 0
    /\ WriteOutputs(CombinedReport(inline_results, received_check_results))
    /\ UNCHANGED << lib_vars, input_vars, check_registry, publishes, correlation_id,
                    inline_todo, inline_results, poll_vars, env_vars >>

\* the loop ended with checks awaited: the exception reaches main
TimedOut ==
    /\ pc = "poll"
    /\ ~LoopCondition(checks_awaiting_result, clock)
    /\ Cardinality(checks_awaiting_result) # 0
    /\ Fail(CouldNotRetrieve(received_check_results, checks_awaiting_result))
    /\ UNCHANGED << lib_vars, input_vars, check_registry, publishes, correlation_id,
                    inline_todo, inline_results, poll_vars, env_vars >>

\* the wall clock advances while the run polls; the clock is read at the head
\* of the loop only, so the time a receive takes passes before the next test
Tick ==
    /\ pc = "poll"
    /\ clock <= FETCH_CHECK_RESULT_TIMEOUT_SECONDS
    /\ clock' = clock + TickSeconds
    /\ UNCHANGED << pc, lib_vars, input_vars, check_registry, publishes, correlation_id,
                    inline_todo, inline_results, checks_awaiting_result,
                    received_check_results, unfiltered_messages,
                    env_vars, out_vars >>

(***************************************************************************)
(* The environment: what arrives on ReleasabilityResultQueue               *)
(***************************************************************************)
\* The run never looks at the queue before it polls: what arrives while the
\* inline checks execute is what the first poll finds, so the arrivals are
\* taken from the moment the polling begins.
Dispatched == correlation_id # None /\ pc = "poll"

Message(id, uuid, name, type, message) ==
    [ id |-> id, requestUUID |-> uuid, checkName |-> name, type |-> type,
      message |-> message ]

\* the next lambda publishes the result of its check
WorkerReport ==
    /\ Dispatched
    /\ next_worker < Len(WorkerOrder)
    /\ Len(queue) < MaxQueue
    /\ \E type \in WorkerTypes :
         queue' = Append(queue, Message(next_worker + 1, correlation_id,
                                        WorkerOrder[next_worker + 1], type, "text"))
    /\ next_worker' = next_worker + 1
    /\ UNCHANGED << pc, lib_vars, input_vars, check_registry, publishes, correlation_id,
                    inline_todo, inline_results, poll_vars, extras, out_vars >>

\* a further message arrives: a redelivery, an ACK, a result for another run
ExtraDeliver ==
    /\ Dispatched
    /\ extras < MaxExtra
    /\ Len(queue) < MaxQueue
    /\ \E m \in ExtraMessages :
         queue' = Append(queue, Message(Len(WorkerOrder) + extras + 1, m[1], m[2], m[3], Absent))
    /\ extras' = extras + 1
    /\ UNCHANGED << pc, lib_vars, input_vars, check_registry, publishes, correlation_id,
                    inline_todo, inline_results, poll_vars, next_worker, out_vars >>

Next ==
    \/ RegisterInlineCheck
    \/ InvalidVersion
    \/ PublishFails
    \/ PublishSucceeds
    \/ SkipLambdaChecks
    \/ ExecuteInlineCheck
    \/ ReportInlineOnly
    \/ StartPolling
    \/ FetchCheckResults
    \/ Complete
    \/ TimedOut
    \/ Tick
    \/ WorkerReport
    \/ ExtraDeliver

Spec == Init /\ [][Next]_vars

(***************************************************************************)
(* The polling protocol on its own: get_combined_report is called with the *)
(* correlation id and the inline results that start_releasability_checks   *)
(* returned (the registry as constructed, CheckLicenses bypassed).         *)
(***************************************************************************)
InitPollRun ==
    /\ pc = "inline"
    /\ version = ValidVersion
    /\ skip_lambda_tests = FALSE
    /\ check_registry = RegisterInlineChecks(NewRegistry)
    /\ publishes = << _build_sns_request(ThisRun, ValidVersion) >>
    /\ correlation_id = ThisRun
    /\ inline_todo = {}
    /\ inline_results =
         << ReleasabilityCheckResult("CheckLicenses", CHECK_PASSED, "bypassed") >>
    /\ checks_awaiting_result = {}
    /\ received_check_results = << >>
    /\ unfiltered_messages = << >>
    /\ clock = 0
    /\ queue = << >>
    /\ next_worker = 0
    /\ extras = 0
    /\ report = << >>
    /\ logs = << >>
    /\ check_outputs = << >>
    /\ status = << >>
    /\ exception = NoException

InitPoll ==
    /\ InitPollRun
    /\ IdleLib

NextPoll ==
    \/ StartPolling
    \/ FetchCheckResults
    \/ Complete
    \/ TimedOut
    \/ Tick
    \/ WorkerReport
    \/ ExtraDeliver

SpecPoll == InitPoll /\ [][NextPoll]_vars

\* The receive returns within its wait and the wall clock advances.
FairPoll ==
    /\ WF_vars(StartPolling)
    /\ WF_vars(FetchCheckResults)
    /\ WF_vars(Complete)
    /\ WF_vars(TimedOut)
    /\ WF_vars(Tick)

LiveSpecPoll == SpecPoll /\ FairPoll

(***************************************************************************)
(* Properties                                                              *)
(***************************************************************************)
Range(seq) == { seq[i] : i \in 1..Len(seq) }

ResultNames(results) == { results[i].name : i \in 1..Len(results) }

\* _get_check_results returned its list / raised
Returned == pc = "done" /\ ~skip_lambda_tests /\ exception = NoException
RaisedCouldNotRetrieve ==
    pc = "done" /\ exception.type = "CouldNotRetrieveReleasabilityCheckResultsException"

\* the first message of the batch that is of this run, no ACK and for name
FirstFor(batch, name) ==
    LET I == { i \in 1..Len(batch) :
                 /\ batch[i].requestUUID = correlation_id
                 /\ batch[i].type # ACK_TYPE
                 /\ batch[i].checkName = name }
    IN  batch[CHOOSE i \in I : \A j \in I : i <= j]

\* C1: whenever _get_check_results returns normally, the returned list holds
\* exactly one result for each of the 8 expected check names and none for any
\* other name; at every moment no name is recorded twice, and a poll records
\* for a name the first message of its batch that carries that name, and only
\* while the name is still awaited.
C1_OneResultPerExpectedCheck ==
    /\ [](Returned =>
            /\ Len(received_check_results) = 8
            /\ ResultNames(received_check_results) = EXPECTED_RELEASABILITY_CHECK_NAMES)
    /\ [](/\ Cardinality(ResultNames(received_check_results)) = Len(received_check_results)
          /\ ResultNames(received_check_results) \cap checks_awaiting_result = {})
    /\ [][ \A k \in 1..Len(received_check_results') :
             IF k <= Len(received_check_results)
             THEN received_check_results'[k] = received_check_results[k]
             ELSE LET r == received_check_results'[k]
                  IN  /\ r.name \in checks_awaiting_result
                      /\ r.state = FirstFor(unfiltered_messages', r.name).type ]_vars

\* two results for one check in one batch, one of them recorded
C1_Witness ==
    /\ Returned
    /\ \E i, j \in 1..Len(unfiltered_messages) :
         /\ i < j
         /\ unfiltered_messages[i].checkName = unfiltered_messages[j].checkName
         /\ unfiltered_messages[i].requestUUID = ThisRun
         /\ unfiltered_messages[j].requestUUID = ThisRun
         /\ unfiltered_messages[i].type \notin { ACK_TYPE, unfiltered_messages[j].type }
         /\ unfiltered_messages[j].type # ACK_TYPE
         /\ \E k \in 1..Len(received_check_results) :
              /\ received_check_results[k].name = unfiltered_messages[i].checkName
              /\ received_check_results[k].state = unfiltered_messages[i].type

\* C2: when the polling ends while an expected check has not reported, the
\* run ends with CouldNotRetrieveReleasabilityCheckResultsException, no report
\* is built from the partial list, and the exception names exactly the
\* expected checks without a recorded result.
C2_TimeoutNamesMissingChecks ==
    (pc = "done" /\ ~skip_lambda_tests) =>
       /\ (ResultNames(received_check_results) # EXPECTED_RELEASABILITY_CHECK_NAMES)
            <=> RaisedCouldNotRetrieve
       /\ RaisedCouldNotRetrieve =>
            /\ exception.missing =
                 EXPECTED_RELEASABILITY_CHECK_NAMES \ ResultNames(received_check_results)
            /\ exception.missing # {}
            /\ exception.received = Len(received_check_results)
            /\ report = << >>
            /\ logs = << >>
            /\ check_outputs = << >>

\* some results were received, others are named as missing
C2_Witness ==
    /\ RaisedCouldNotRetrieve
    /\ "CheckDependencies" \in ResultNames(received_check_results)
    /\ exception.missing = EXPECTED_RELEASABILITY_CHECK_NAMES \ { "CheckDependencies" }

\* C3: with receives that return and a clock that advances, the polling
\* always ends, in exactly one of COMPLETE (the list is returned) and TIMED_OUT
\* (the exception is raised), whatever the queue delivers; and no poll is
\* started once nothing is awaited.
C3_PollingTerminates ==
    /\ <>(pc = "done")
    /\ [](pc = "done" => (Returned /\ checks_awaiting_result = {}) # RaisedCouldNotRetrieve)
    /\ []((pc = "poll" /\ checks_awaiting_result = {}) => ~ENABLED <<FetchCheckResults>>_vars)
    /\ [][ (pc = "poll" /\ checks_awaiting_result = {})
             => unfiltered_messages' = unfiltered_messages ]_vars

\* the polling ended after a further message was delivered and consumed
C3_Witness ==
    /\ pc = "done"
    /\ extras = 1
    /\ next_worker > 0
    /\ unfiltered_messages # << >>

\* C4: a poll records a result, or removes a name from the awaited set, only
\* for a message of its batch whose requestUUID is the correlation id and
\* whose type is not ACK; the awaited set loses exactly the recorded names;
\* messages of another run are never deleted by the run, and every fetched
\* message of this run, ACK included, is deleted from the queue.
C4_OnlyMatchingNonAckRecorded ==
    [][ LET batch == unfiltered_messages'
            new == { received_check_results'[k] :
                       k \in (Len(received_check_results) + 1)..Len(received_check_results') }
        IN  /\ Len(received_check_results') >= Len(received_check_results)
            /\ \A r \in new :
                 \E i \in 1..Len(batch) :
                    /\ batch[i].requestUUID = correlation_id
                    /\ batch[i].type # ACK_TYPE
                    /\ batch[i].checkName = r.name
                    /\ batch[i].type = r.state
            /\ pc = "poll" =>
                 checks_awaiting_result' = checks_awaiting_result \ { r.name : r \in new }
            /\ \A m \in Range(queue) \ Range(queue') : m.requestUUID = correlation_id
            /\ \A i \in 1..Len(batch) :
                 (batch[i].requestUUID = correlation_id /\ batch[i].type = ACK_TYPE)
                   => batch[i] \notin Range(queue') ]_vars

\* an ACK of this run for an awaited check was fetched: it is gone from the
\* queue and the check is still awaited
C4_Witness ==
    \E i \in 1..Len(unfiltered_messages) :
       /\ unfiltered_messages[i].requestUUID = ThisRun
       /\ unfiltered_messages[i].type = ACK_TYPE
       /\ unfiltered_messages[i].checkName \in checks_awaiting_result
       /\ unfiltered_messages[i] \notin Range(queue)
       /\ received_check_results = << >>

\* C5 as claimed: after a poll none of the fetched messages remains on the
\* queue, the messages of other runs included.
C5_FetchedMessagesAllDeleted ==
    \A m \in Range(unfiltered_messages) : m \notin Range(queue)

\* C5 as the code has it: after a poll the fetched messages of this run are
\* gone from the queue, and the fetched messages of other runs are still on
\* the queue: the run deletes nothing that is not its own.
C5_OnlyOwnMessagesDeleted ==
    \A m \in Range(unfiltered_messages) :
       (m \in Range(queue)) <=> (m.requestUUID # correlation_id)

\* a poll fetched a message of another run together with one of its own
C5_Witness ==
    /\ \E m \in Range(unfiltered_messages) : m.requestUUID = OtherRun /\ m \in Range(queue)
    /\ \E m \in Range(unfiltered_messages) : m.requestUUID = ThisRun /\ m \notin Range(queue)

\* execute_inline_checks has returned
InlineReturned ==
    \/ pc = "inline" /\ inline_todo = {}
    \/ pc = "poll"
    \/ pc = "done" /\ exception.type \notin { "ValueError", "PublishError" }

\* C6: execute_inline_checks returns exactly one result per registered
\* inline check; each iteration appends the result of one check that was not
\* yet visited: ERROR with the check's name and the exception text if its
\* execute raised, the returned result otherwise; whatever a check does, the
\* other checks are still visited.
C6_OneResultPerInlineCheck ==
    /\ [](InlineReturned =>
            /\ Len(inline_results) = Cardinality(get_inline_check_names(check_registry))
            /\ ResultNames(inline_results) = get_inline_check_names(check_registry))
    /\ [][ Len(inline_results') # Len(inline_results) =>
             LET r == inline_results'[Len(inline_results')]
             IN  /\ Len(inline_results') = Len(inline_results) + 1
                 /\ SubSeq(inline_results', 1, Len(inline_results)) = inline_results
                 /\ r.name \in inline_todo
                 /\ inline_todo' = inline_todo \ {r.name}
                 /\ \E outcome \in ExecuteOutcomes(check_registry.inline_checks[r.name]) :
                      /\ r.message = outcome.message
                      /\ r.state = IF outcome.raises THEN CHECK_ERROR ELSE outcome.state ]_vars

\* the check visited first raised, the other one was executed after it
C6_Witness ==
    /\ pc = "done"
    /\ Len(inline_results) = 2
    /\ inline_results[1] =
         [ name |-> "TestCheck", state |-> CHECK_ERROR, message |-> "Test error",
           passed |-> FALSE ]
    /\ inline_results[2].name = "CheckLicenses"
    /\ Len(report) = 2

C8_PublishOnceBeforeInline ==
    (version = ValidVersion /\ ~skip_lambda_tests) =>
       /\ Len(publishes) = (IF pc = "start" THEN 0 ELSE 1)
       /\ (inline_results # << >> \/ inline_todo # {}) =>
            (Len(publishes) = 1 /\ correlation_id = ThisRun)
       /\ exception.type = "PublishError" =>
            /\ pc = "done"
            /\ status = << "1" >>
            /\ inline_results = << >>
            /\ inline_todo = {}
            /\ checks_awaiting_result = {}
            /\ received_check_results = << >>
            /\ unfiltered_messages = << >>
            /\ queue = << >>
            /\ report = << >>

C8_Witness ==
    /\ version = ValidVersion
    /\ pc = "done"
    /\ exception.type = "PublishError"
    /\ Len(publishes) = 1

PassingStates == { CHECK_PASSED, CHECK_NOT_RELEVANT }

\* C9: every result the run builds (inline, wrapped from an exception, built
\* from a message) has passed = TRUE iff its state is PASSED or NOT_RELEVANT;
\* the status output is written exactly once, when the run ends, and it is
\* "0" iff no exception was caught and every result of the report has state
\* PASSED or NOT_RELEVANT, and "1" otherwise.
C9_PassedAndStatus ==
    /\ \A r \in Range(inline_results) \cup Range(received_check_results) \cup Range(report) :
         r.passed <=> r.state \in PassingStates
    /\ Len(status) = (IF pc = "done" THEN 1 ELSE 0)
    /\ pc = "done" =>
         /\ status[1] \in { "0", "1" }
         /\ status[1] = "0" <=>
              /\ exception = NoException
              /\ \A r \in Range(report) : r.state \in PassingStates

\* a result with an unknown state made the run end with status "1"
C9_Witness ==
    /\ pc = "done"
    /\ exception = NoException
    /\ status = << "1" >>
    /\ \E r \in Range(report) : r.state = "SKIPPED"
    /\ \A r \in Range(report) : r.state \in PassingStates \cup { "SKIPPED" }

\* C10: when the run has ended, every inline result that was computed is
\* rendered in the logs output, also when the dispatched results did not all
\* arrive; and the report holds the inline results followed by the
\* dispatched results, each once.
C10_InlineOutcomesAlwaysRendered ==
    (pc = "done" /\ inline_results # << >>) =>
       /\ Len(logs) = 1
       /\ \A r \in Range(inline_results) : ResultStr(r) \in Range(logs[1])
       /\ report = inline_results \o received_check_results

(***************************************************************************)
(* The libraries and the releasability-status action on their own          *)
(***************************************************************************)
\* do_releasability_checks is not running
IdleMain ==
    /\ pc = "idle"
    /\ version = << >>
    /\ skip_lambda_tests = FALSE
    /\ check_registry = NewRegistry
    /\ publishes = << >>
    /\ correlation_id = None
    /\ inline_todo = {}
    /\ inline_results = << >>
    /\ checks_awaiting_result = {}
    /\ received_check_results = << >>
    /\ unfiltered_messages = << >>
    /\ clock = 0
    /\ queue = << >>
    /\ next_worker = 0
    /\ extras = 0
    /\ report = << >>
    /\ logs = << >>
    /\ check_outputs = << >>
    /\ status = << >>
    /\ exception = NoException

(***************************************************************************)
(* VersionHelper called with a version string                              *)
(***************************************************************************)
\* The longest digit run of the build numbers that are tried.
MaxDigits == 2

\* the strings of 0..n characters of cls
Runs(cls, n) == UNION { [ 1..k -> cls ] : k \in 0..n }

\* The version strings that are tried: every concatenation of a prefix, three
\* numbers and their separators, a milestone suffix, the separator, a build
\* number and a tail, each part well formed or not.  "1.2.3", "42.2" and
\* "5.4.3.2.1" of the tests are among them, as is "1.2.3.1234"-like input.
VersionParts ==
    << { << >>, << "a", "B", "-" >>, << "-" >>, << "a" >> },
       { << "1" >>, << "4", "2" >>, << >> },
       { << "." >>, << "+" >> },
       { << "2" >>, << >> },
       { << "." >> },
       { << "3" >>, << >> },
       { << >>, << "-", "M", "7" >>, << "-", "M" >>, << "-", "m", "7" >> },
       { << "." >>, << "+" >>, << "-" >>, << >> },
       Runs({ "0", "5" }, MaxDigits),
       { << >>, << "\n" >>, << ".", "1" >>, << "x" >> } >>

VersionInputs ==
    { p[1] \o p[2] \o p[3] \o p[4] \o p[5] \o p[6] \o p[7] \o p[8] \o p[9] \o p[10] :
        p \in VersionParts[1] \X VersionParts[2] \X VersionParts[3] \X VersionParts[4]
              \X VersionParts[5] \X VersionParts[6] \X VersionParts[7]
              \X VersionParts[8] \X VersionParts[9] \X VersionParts[10] }

InitVersion ==
    /\ IdleMain
    /\ call \in [ op : { "validate_version", "extract_build_number" },
                  version : VersionInputs ]
    /\ ret = NoCall
    /\ files = << >>
    /\ github = << >>
    /\ manager = NoManager
    /\ added = << >>
    /\ hash_order = << >>
    /\ comparisons = << >>
    /\ IdleAux

\* VersionHelper.validate_version(version): returns None or raises ValueError
ValidateVersion ==
    /\ call.op = "validate_version"
    /\ ret = NoCall
    /\ ret' = [ op |-> call.op, raised |-> ~validate_version(call.version),
                value |-> None ]
    /\ UNCHANGED << main_vars, aux_vars, call, files, github, manager, added, hash_order,
                    comparisons >>

\* VersionHelper.extract_build_number(version): returns the int or raises
ExtractBuildNumber ==
    /\ call.op = "extract_build_number"
    /\ ret = NoCall
    /\ LET build_number == extract_build_number(call.version)
       IN  ret' = [ op |-> call.op, raised |-> build_number = ValueError,
                    value |-> build_number ]
    /\ UNCHANGED << main_vars, aux_vars, call, files, github, manager, added, hash_order,
                    comparisons >>

NextVersion == ValidateVersion \/ ExtractBuildNumber

SpecVersion == InitVersion /\ [][NextVersion]_vars

\* The number of leading characters of s, from position i + 1 on, that are in cls.
RunEnd(s, i, cls) ==
    IF i < 0 THEN -1
    ELSE CHOOSE j \in i..Len(s) :
           /\ \A k \in (i + 1)..j : s[k] \in cls
           /\ j < Len(s) => s[j + 1] \notin cls

\* i if it is a position and s has one of chars after it, else -1
Expect(s, i, chars) ==
    IF i >= 0 /\ i < Len(s) /\ s[i + 1] \in chars THEN i + 1 ELSE -1

\* at least one character of cls from position i + 1 on
Some(s, i, cls) == IF RunEnd(s, i, cls) > i THEN RunEnd(s, i, cls) ELSE -1

\* The grammar [letters-]MAJOR.MINOR.PATCH[-M<digits>](.|+)BUILD read from
\* left to right: the position at which the build number starts, or -1.
BuildNumberStart(s) ==
    LET a == IF Len(s) > 0 /\ s[1] \in Letters
             THEN Expect(s, RunEnd(s, 0, Letters), {"-"}) ELSE 0
        b == Some(s, Expect(s, Some(s, Expect(s, Some(s, a, Digits), {"."}), Digits),
                            {"."}), Digits)
        c == IF b >= 0 /\ b < Len(s) /\ s[b + 1] = "-"
             THEN Some(s, Expect(s, b + 1, {"M"}), Digits) ELSE b
    IN  Expect(s, c, {".", "+"})

\* s has the form of the grammar: after the separator the string is digits only
HasVersionForm(s) ==
    /\ BuildNumberStart(s) >= 0
    /\ BuildNumberStart(s) < Len(s)
    /\ \A k \in (BuildNumberStart(s) + 1)..Len(s) : s[k] \in Digits

\* the decimal value of the digits of s after position i
Decimal(s, i) ==
    LET V[k \in i..Len(s)] == IF k = i THEN 0 ELSE 10 * V[k - 1] + DigitValue(s[k])
    IN  V[Len(s)]

\* C11: for every version string tried: if it has the form of the grammar,
\* extract_build_number returns its final digit group as an integer and
\* validate_version returns; for every other string both raise.
C11_BuildNumberIffGrammar ==
    ret # NoCall =>
       /\ ret.raised <=> ~HasVersionForm(call.version)
       /\ (call.op = "extract_build_number" /\ HasVersionForm(call.version)) =>
             ret.value = Decimal(call.version, BuildNumberStart(call.version))

(***************************************************************************)
(* The releasability-status action (src/releasability-status/src/main.py)  *)
(***************************************************************************)
\* The number of check outputs in a result map that is tried.
MaxChecks == 2

GITHUB_ACTION_OUTPUT_STATUS_NAME == "status"
GITHUB_ACTION_OUTPUT_STATE_NAME == "state"
GITHUB_ACTION_OUTPUT_MESSAGE_NAME == "message"
STATE_SUCCESS == "success"
STATE_FAILURE == "failure"

\* 'releasability', character by character
ReleasabilityPrefix ==
    << "r", "e", "l", "e", "a", "s", "a", "b", "i", "l", "i", "t", "y" >>

StatusKey == << "s", "t", "a", "t", "u", "s" >>
LogsKey == << "l", "o", "g", "s" >>

\* check names: 'QA' and 'Jira' of the tests, and a name in lower case
NameQA == << "Q", "A" >>
NameJira == << "J", "i", "r", "a" >>
NameSbom == << "s", "b", "o", "m" >>
CheckNames == { NameQA, NameJira, NameSbom }

\* str.startswith
startswith(str, prefix) ==
    Len(str) >= Len(prefix) /\ SubSeq(str, 1, Len(prefix)) = prefix

\* str.lstrip(chars): the leading characters that occur in chars are removed
lstrip(str, chars) ==
    LET set == { chars[i] : i \in 1..Len(chars) }
        n == CHOOSE j \in 0..Len(str) :
               /\ \A k \in 1..j : str[k] \in set
               /\ j < Len(str) => str[j + 1] \notin set
    IN  SubSeq(str, n + 1, Len(str))

\* find_failed_checks(result): result is the dict as its items in key order
find_failed_checks(result) ==
    LET F[i \in 0..Len(result)] ==
          IF i = 0 THEN << >>
          ELSE LET key == result[i][1]
               IN  IF startswith(key, ReleasabilityPrefix)
                      /\ result[i][2] \notin { "PASSED", "NOT_RELEVANT" }
                   THEN Append(F[i - 1], lstrip(key, ReleasabilityPrefix))
                   ELSE F[i - 1]
    IN  F[Len(result)]

\* result[key]
DictGet(result, key) ==
    result[CHOOSE i \in 1..Len(result) : result[i][1] = key][2]

\* set(failed).issubset(optional_checks) with 'some' in place of 'every'
SomeFailedIsOptional(failed, optional_checks) ==
    \/ failed = << >>
    \/ \E i \in 1..Len(failed) : \E j \in 1..Len(optional_checks) :
         failed[i] = optional_checks[j]

\* set(failed).issubset(optional_checks)
issubset(failed, optional_checks) ==
    { failed[i] : i \in 1..Len(failed) }
       \subseteq { optional_checks[j] : j \in 1..Len(optional_checks) }

\* parse_releasability_output: the set_output calls it makes, in order; a
\* message is its template and the failed checks joined into it
parse_releasability_output(ver, releasability_check_result, optional_checks) ==
    LET given == DictGet(releasability_check_result, StatusKey)
        failed == find_failed_checks(releasability_check_result)
    IN  IF given = "0"
        THEN << << GITHUB_ACTION_OUTPUT_STATUS_NAME, given >>,
                << GITHUB_ACTION_OUTPUT_STATE_NAME, STATE_SUCCESS >>,
                << GITHUB_ACTION_OUTPUT_MESSAGE_NAME,
                   [ text |-> "passed releasability checks", failed_checks |-> << >> ] >> >>
        ELSE IF issubset(failed, optional_checks)
        THEN << << GITHUB_ACTION_OUTPUT_STATUS_NAME, "0" >>,
                << GITHUB_ACTION_OUTPUT_STATE_NAME, STATE_SUCCESS >>,
                << GITHUB_ACTION_OUTPUT_MESSAGE_NAME,
                   [ text |-> "failed optional checks", failed_checks |-> failed ] >> >>
        ELSE << << GITHUB_ACTION_OUTPUT_STATUS_NAME, given >>,
                << GITHUB_ACTION_OUTPUT_STATE_NAME, STATE_FAILURE >>,
                << GITHUB_ACTION_OUTPUT_MESSAGE_NAME,
                   [ text |-> "failed checks", failed_checks |-> failed ] >> >>

\* the sequences of 0..n distinct elements of S
Arrangements(S, n) ==
    UNION { { f \in [ 1..k -> S ] : \A i, j \in 1..k : i # j => f[i] # f[j] } : k \in 0..n }

\* The result maps that are tried: the JSON of the outputs of the
\* releasability step: optionally its logs, then the states of up to
\* MaxChecks checks in any order, then its status.
ResultMaps ==
    { logs_item \o check_items \o << << StatusKey, st >> >> :
        logs_item \in { << >>, << << LogsKey, "text" >> >> },
        check_items \in
            UNION { [ 1..Len(names) -> { << ReleasabilityPrefix \o names[i], state >> :
                                           i \in 1..Len(names),
                                           state \in { CHECK_PASSED, CHECK_NOT_RELEVANT,
                                                       CHECK_FAILED, CHECK_ERROR } } ] :
                    names \in Arrangements(CheckNames, MaxChecks) },
        st \in { "0", "1" } }

\* the result maps without a key twice
ResultDicts ==
    { result \in ResultMaps :
        \A i, j \in 1..Len(result) : i # j => result[i][1] # result[j][1] }

\* OPTIONAL_CHECKS: lists of the check names
OptionalCheckLists ==
    { << >>, << NameQA >>, << NameJira >>, << NameSbom >>,
      << NameJira, NameQA >>, << NameQA, NameJira, NameSbom >> }

InitStatus ==
    /\ IdleMain
    /\ call \in [ op : { "find_failed_checks" }, result : ResultDicts ]
           \cup [ op : { "parse_releasability_output" }, result : ResultDicts,
                  optional_checks : OptionalCheckLists ]
    /\ ret = NoCall
    /\ files = << >>
    /\ github = << >>
    /\ manager = NoManager
    /\ added = << >>
    /\ hash_order = << >>
    /\ comparisons = << >>
    /\ IdleAux

FindFailedChecks ==
    /\ call.op = "find_failed_checks"
    /\ ret = NoCall
    /\ ret' = [ op |-> call.op, value |-> find_failed_checks(call.result) ]
    /\ UNCHANGED << main_vars, aux_vars, call, files, github, manager, added, hash_order,
                    comparisons >>

ParseReleasabilityOutput ==
    /\ call.op = "parse_releasability_output"
    /\ ret = NoCall
    /\ ret' = [ op |-> call.op,
                outputs |-> parse_releasability_output(<< "1", ".", "0" >>, call.result,
                                                       call.optional_checks) ]
    /\ UNCHANGED << main_vars, aux_vars, call, files, github, manager, added, hash_order,
                    comparisons >>

NextStatus == FindFailedChecks \/ ParseReleasabilityOutput

SpecStatus == InitStatus /\ [][NextStatus]_vars

\* the items of a result map that are outputs of a check that did not pass
FailedItems(result) ==
    SelectSeq(result,
              LAMBDA item :
                 /\ Len(item[1]) >= Len(ReleasabilityPrefix)
                 /\ \A k \in 1..Len(ReleasabilityPrefix) : item[1][k] = ReleasabilityPrefix[k]
                 /\ item[2] # "PASSED"
                 /\ item[2] # "NOT_RELEVANT")

\* C12: find_failed_checks returns, in the order of the keys, one entry for
\* each key that starts with 'releasability' and whose value is neither
\* PASSED nor NOT_RELEVANT, and the entry is the key without its first 13
\* characters, the prefix 'releasability'.
C12_FailedChecksArePrefixStripped ==
    ret.op = "find_failed_checks" =>
       /\ Len(ret.value) = Len(FailedItems(call.result))
       /\ \A i \in 1..Len(ret.value) :
            ret.value[i] = SubSeq(FailedItems(call.result)[i][1],
                                  Len(ReleasabilityPrefix) + 1,
                                  Len(FailedItems(call.result)[i][1]))

\* the value set_output was given for an output name
OutputOf(outputs, name) ==
    outputs[CHOOSE i \in 1..Len(outputs) : outputs[i][1] = name][2]

\* every name find_failed_checks returned is in the optional-check list
AllFailedOptional ==
    \A i \in 1..Len(find_failed_checks(call.result)) :
       \E j \in 1..Len(call.optional_checks) :
          find_failed_checks(call.result)[i] = call.optional_checks[j]

C29_NonZeroStatusWithoutFailedCheckFails ==
    ( /\ ret.op = "parse_releasability_output"
      /\ DictGet(call.result, StatusKey) # "0"
      /\ FailedItems(call.result) = << >> )
    => /\ OutputOf(ret.outputs, "status") = DictGet(call.result, StatusKey)
       /\ OutputOf(ret.outputs, "state") = "failure"

(***************************************************************************)
(* SCA exceptions and comparison (src/src/utils/sca_exceptions.py)         *)
(***************************************************************************)
\* The number of calls of compare_with_exceptions on one engine.
MaxCompares == 2

UpperCase ==
    << "A", "B", "C", "D", "E", "F", "G", "H", "I", "J", "K", "L", "M",
       "N", "O", "P", "Q", "R", "S", "T", "U", "V", "W", "X", "Y", "Z" >>
LowerCase ==
    << "a", "b", "c", "d", "e", "f", "g", "h", "i", "j", "k", "l", "m",
       "n", "o", "p", "q", "r", "s", "t", "u", "v", "w", "x", "y", "z" >>
Whitespace == { " ", "\t", "\n", "\r" }

\* c in str
Contains(str, c) == \E i \in 1..Len(str) : str[i] = c

\* str.replace(a, b) for characters a and b
replace(str, a, b) == [ i \in 1..Len(str) |-> IF str[i] = a THEN b ELSE str[i] ]

\* str.lower()
lower(str) ==
    [ i \in 1..Len(str) |->
        IF \E k \in 1..Len(UpperCase) : UpperCase[k] = str[i]
        THEN LowerCase[CHOOSE k \in 1..Len(UpperCase) : UpperCase[k] = str[i]]
        ELSE str[i] ]

\* str.strip()
strip(str) ==
    LET keep == { i \in 1..Len(str) : str[i] \notin Whitespace }
    IN  IF keep = {} THEN << >>
        ELSE SubSeq(str, CHOOSE i \in keep : \A j \in keep : i <= j,
                         CHOOSE i \in keep : \A j \in keep : i >= j)

\* str.endswith
endswith(str, suffix) ==
    Len(str) >= Len(suffix) /\ SubSeq(str, Len(str) - Len(suffix) + 1, Len(str)) = suffix

\* sub in str
IsSubstring(sub, str) ==
    \E i \in 0..(Len(str) - Len(sub)) : SubSeq(str, i + 1, i + Len(sub)) = sub

\* the parts of str.split(c), as a set
SplitParts(str, c) ==
    LET cuts == { i \in 1..Len(str) : str[i] = c } \cup { 0, Len(str) + 1 }
    IN  { SubSeq(str, i + 1, j - 1) :
            <<i, j>> \in { x \in cuts \X cuts :
                             x[1] < x[2] /\ \A k \in cuts : ~(x[1] < k /\ k < x[2]) } }

\* str.split(c)[-1]
SplitLast(str, c) ==
    LET cuts == { i \in 1..Len(str) : str[i] = c } \cup { 0 }
    IN  SubSeq(str, (CHOOSE i \in cuts : \A j \in cuts : i >= j) + 1, Len(str))

\* LicenseFileDetector.normalize_maven_coordinate
normalize_maven_coordinate(component_name) ==
    IF Contains(component_name, ":") THEN replace(component_name, ":", ".")
    ELSE component_name

\* LicenseFileDetector.normalize_for_comparison: both branches of its last
\* test return the same value
normalize_for_comparison(name) == strip(lower(normalize_maven_coordinate(name)))

\* iterating a set of strings: its elements in the order of the process
Iterate(set, order) == SelectSeq(order, LAMBDA name : name \in set)

\* the test of _find_fuzzy_matches for a license name and an artifact id
MatchesArtifact(license_dep, artifact_id) ==
    \/ license_dep = artifact_id
    \/ endswith(license_dep, << "." >> \o artifact_id)
    \/ startswith(license_dep, artifact_id \o << "." >>)
    \/ IsSubstring(<< "." >> \o artifact_id \o << "." >>, license_dep)
    \/ /\ Contains(license_dep, "-")
       /\ artifact_id \in SplitParts(license_dep, "-")

\* SCAComparisonEngine._find_fuzzy_matches: the list of matched pairs
_find_fuzzy_matches(sca_deps, license_deps, order) ==
    LET sca_seq == Iterate(sca_deps, order)
        license_seq == Iterate(license_deps, order)
        \* << matches, used_license_deps >> after the first i SCA names
        F[i \in 0..Len(sca_seq)] ==
          IF i = 0 THEN << << >>, {} >>
          ELSE LET sca_dep == sca_seq[i]
                   matches == F[i - 1][1]
                   used == F[i - 1][2]
                   artifact_id == SplitLast(sca_dep, ".")
                   candidates ==
                       { k \in 1..Len(license_seq) :
                           /\ license_seq[k] \notin used
                           /\ MatchesArtifact(license_seq[k], artifact_id) }
                   first == license_seq[CHOOSE k \in candidates :
                                           \A j \in candidates : k <= j]
               IN  IF sca_dep \in license_deps /\ sca_dep \notin used
                   THEN << Append(matches, << sca_dep, sca_dep >>), used \cup {sca_dep} >>
                   ELSE IF Contains(sca_dep, ".") /\ candidates # {}
                   THEN << Append(matches, << sca_dep, first >>), used \cup {first} >>
                   ELSE F[i - 1]
    IN  F[Len(sca_seq)][1]

\* expected_dependencies with the false negatives added after the removal
ExpectedFalsePositivesFirst(sca, fns, fps) == (sca \ fps) \cup fns

\* expected_dependencies with the false negatives left out
ExpectedWithoutFalseNegatives(sca, fns, fps) == sca \ fps

\* expected_dependencies = (normalized_sca_deps | normalized_fns) - normalized_fps
ExpectedDependencies(sca, fns, fps) == (sca \cup fns) \ fps

\* coverage_percentage counting every found dependency
CoverageOfFound(found, expected) ==
    IF Cardinality(expected) > 0
    THEN [ num |-> 100 * Cardinality(found), den |-> Cardinality(expected) ]
    ELSE [ num |-> 0, den |-> 1 ]

\* coverage_percentage: (matched / total_expected) * 100 as the fraction
\* num / den, 0.0 if nothing is expected
CoveragePercentage(found, expected) ==
    IF Cardinality(expected) > 0
    THEN [ num |-> 100 * Cardinality(found \cap expected), den |-> Cardinality(expected) ]
    ELSE [ num |-> 0, den |-> 1 ]

\* SCAExceptionManager.get_false_positives / get_false_negatives: copies
get_false_positives(m) == m.false_positives
get_false_negatives(m) == m.false_negatives

\* SCAComparisonEngine.compare_with_exceptions
compare_with_exceptions(m, license_dependencies, sca_dependencies, order) ==
    LET fps == get_false_positives(m)
        fns == get_false_negatives(m)
        normalized_license_deps ==
            { normalize_for_comparison(name) : name \in license_dependencies }
        normalized_sca_deps == { normalize_for_comparison(name) : name \in sca_dependencies }
        normalized_fps == { normalize_for_comparison(name) : name \in fps }
        normalized_fns == { normalize_for_comparison(name) : name \in fns }
        matched_pairs == _find_fuzzy_matches(normalized_sca_deps, normalized_license_deps, order)
        matched_sca_deps == { matched_pairs[i][1] : i \in 1..Len(matched_pairs) }
        matched_license_deps == { matched_pairs[i][2] : i \in 1..Len(matched_pairs) }
        expected_dependencies ==
            ExpectedDependencies(normalized_sca_deps, normalized_fns, normalized_fps)
        actual_dependencies == normalized_license_deps
        found_dependencies ==
            matched_license_deps \cup (normalized_fns \cap actual_dependencies)
    IN  [ expected_dependencies |-> expected_dependencies,
          actual_dependencies |-> actual_dependencies,
          missing_dependencies |-> expected_dependencies \ found_dependencies,
          extra_dependencies |-> actual_dependencies \ found_dependencies,
          coverage_percentage |-> CoveragePercentage(found_dependencies, expected_dependencies),
          false_positives_used |-> normalized_fps,
          false_negatives_used |-> normalized_fns,
          total_expected |-> Cardinality(expected_dependencies),
          total_actual |-> Cardinality(actual_dependencies),
          matched_count |-> Cardinality(matched_sca_deps \cap expected_dependencies),
          fuzzy_matches |-> matched_pairs ]

\* Dependency names of the comparison
Dep1 == << "d", "e", "p", "1" >>
Dep2 == << "d", "e", "p", "2" >>
Dep3 == << "d", "e", "p", "3" >>
UpperDep1 == << "D", "e", "p", "1" >>
Gson == << "g", "s", "o", "n" >>
GsonCoordinate == << "g", ":", "g", "s", "o", "n" >>
GsonDotted == << "g", ".", "g", "s", "o", "n" >>

LicenseNames == { Dep1, Dep2, Gson }
ScaNames == { Dep1, Dep3, Gson, GsonCoordinate }
ExceptionNames == { Dep2, Dep3, UpperDep1 }

\* The iteration orders of a set of these names: the names a fuzzy match can
\* pair are met in either order.
HashOrders ==
    { << Dep1, Dep2, Dep3, Gson, GsonDotted >>,
      << GsonDotted, Gson, Dep3, Dep2, Dep1 >> }

\* A manager holding the given sets (loaded by the constructor, or added)
ManagerOf(fps, fns) ==
    [ constructed |-> TRUE, false_positives |-> fps, false_negatives |-> fns ]

\* compare_with_exceptions storing the normalized names in the manager
ManagerNormalizedInPlace(m) ==
    [ m EXCEPT !.false_positives = { normalize_for_comparison(name) : name \in @ },
               !.false_negatives = { normalize_for_comparison(name) : name \in @ } ]

\* compare_with_exceptions reads copies of the manager's sets and writes the
\* manager nowhere
ManagerAfterCompare(m) == m

InitCompare ==
    /\ IdleMain
    /\ call \in [ op : { "compare_with_exceptions" },
                  license_dependencies : SUBSET LicenseNames,
                  sca_dependencies : SUBSET ScaNames ]
    /\ ret = NoCall
    /\ files = << >>
    /\ github = << >>
    /\ manager \in { ManagerOf(fps, fns) :
                       fps \in SUBSET ExceptionNames, fns \in SUBSET ExceptionNames }
    /\ added = << >>
    /\ hash_order \in HashOrders
    /\ comparisons = << >>
    /\ IdleAux

\* One call of SCAComparisonEngine.compare_with_exceptions
CompareWithExceptions ==
    /\ call.op = "compare_with_exceptions"
    /\ Len(comparisons) < MaxCompares
    /\ comparisons' =
           Append(comparisons,
                  compare_with_exceptions(manager, call.license_dependencies,
                                          call.sca_dependencies, hash_order))
    /\ manager' = ManagerAfterCompare(manager)
    /\ UNCHANGED << main_vars, aux_vars, call, ret, files, github, added, hash_order >>

NextCompare == CompareWithExceptions

SpecCompare == InitCompare /\ [][NextCompare]_vars

\* The results returned so far
Compared == { comparisons[i] : i \in 1..Len(comparisons) }

\* C14: a dependency of the false-positive set, as given or normalized, is
\* never in the missing dependencies of a comparison.
C14_FalsePositiveNeverMissing ==
    \A c \in Compared : \A d \in manager.false_positives :
        /\ d \notin c.missing_dependencies
        /\ normalize_for_comparison(d) \notin c.missing_dependencies

\* C14 witness: SCA reports a false positive that no license file covers,
\* and the comparison has returned.
C14_Witness ==
    /\ Len(comparisons) > 0
    /\ Dep3 \in manager.false_positives
    /\ Dep3 \notin manager.false_negatives
    /\ Dep3 \in call.sca_dependencies
    /\ Dep3 \notin call.license_dependencies
    /\ Dep1 \in comparisons[1].missing_dependencies

\* The normalized names of a set of names
NormalizedOf(names) == { normalize_for_comparison(name) : name \in names }

\* C15 as stated: every dependency of the false-negative set is in the
\* expected dependencies of a comparison, whether SCA lists it or not.
C15_FalseNegativesAreExpected ==
    \A c \in Compared : \A d \in manager.false_negatives :
        d \in c.expected_dependencies

\* C15 amended: the normalized form of a false negative is in the expected
\* dependencies, whether SCA lists it or not, exactly when it is not the
\* normalized form of a false positive.
C15_FalseNegativesExpectedUnlessFalsePositive ==
    \A c \in Compared : \A d \in manager.false_negatives :
        normalize_for_comparison(d) \in c.expected_dependencies
            <=> normalize_for_comparison(d) \notin NormalizedOf(manager.false_positives)

\* C15 witness: false negatives that SCA does not list, one of them in upper
\* case, are expected (and missing) in their normalized form.
C15_Witness ==
    /\ Len(comparisons) > 0
    /\ manager.false_negatives = { Dep2, UpperDep1 }
    /\ manager.false_positives = { Dep3 }
    /\ call.sca_dependencies = { Dep3 }
    /\ call.license_dependencies = {}
    /\ comparisons[1].expected_dependencies = { Dep1, Dep2 }
    /\ comparisons[1].missing_dependencies = { Dep1, Dep2 }

C19_FuzzyPairsAreMatched ==
    \A c \in Compared : \A i \in 1..Len(c.fuzzy_matches) :
        /\ c.fuzzy_matches[i][1] \notin c.missing_dependencies
        /\ c.fuzzy_matches[i][2] \notin c.extra_dependencies

\* Names that only match exactly: no SCA name is a Maven coordinate or a
\* dotted name
ExactNamesOnly ==
    \A name \in call.sca_dependencies : ~Contains(name, ":") /\ ~Contains(name, ".")

\* C20: without exceptions and with names that only match exactly, missing
\* is expected minus actual, extra is actual minus expected and the coverage
\* is 100 * |expected /\ actual| / |expected|, 0 when nothing is expected;
\* the coverage is between 0 and 100 in every comparison.
C20_ExactComparison ==
    \A c \in Compared :
        LET expected == c.expected_dependencies
            actual == c.actual_dependencies
            coverage == c.coverage_percentage
        IN  /\ coverage.den > 0
            /\ 0 <= coverage.num
            /\ coverage.num <= 100 * coverage.den
            /\ (manager.false_positives = {} /\ manager.false_negatives = {} /\ ExactNamesOnly)
                 => /\ expected = NormalizedOf(call.sca_dependencies)
                    /\ actual = NormalizedOf(call.license_dependencies)
                    /\ c.missing_dependencies = expected \ actual
                    /\ c.extra_dependencies = actual \ expected
                    /\ expected = {} => coverage.num = 0
                    /\ expected # {} =>
                         coverage.num * Cardinality(expected)
                             = 100 * Cardinality(expected \cap actual) * coverage.den

\* C20 witness: without exceptions, one of two expected names is found.
C20_Witness ==
    /\ Len(comparisons) > 0
    /\ manager.false_positives = {}
    /\ manager.false_negatives = {}
    /\ call.license_dependencies = { Dep1, Dep2 }
    /\ call.sca_dependencies = { Dep1, Dep3 }
    /\ comparisons[1].missing_dependencies = { Dep3 }
    /\ comparisons[1].extra_dependencies = { Dep2 }
    /\ comparisons[1].coverage_percentage = [ num |-> 100, den |-> 2 ]

(***************************************************************************)
(* The same comparison in several processes                                *)
(***************************************************************************)
\* The number of processes that run the comparison.
MaxProcesses == 2

OtherGsonDotted == << "x", ".", "g", "s", "o", "n" >>

\* Python hashes strings with a seed of the process: a set of strings is
\* iterated in any order, the same within one process
ProcessOrders ==
    LET names == { Dep1, Gson, GsonDotted, OtherGsonDotted }
    IN  { order \in [ 1..Cardinality(names) -> names ] :
            \A i, j \in 1..Cardinality(names) : i # j => order[i] # order[j] }

InitProcesses ==
    /\ IdleMain
    /\ call \in [ op : { "compare_with_exceptions" },
                  license_dependencies : SUBSET { Dep1, Gson, OtherGsonDotted },
                  sca_dependencies : SUBSET { Dep1, Gson, GsonDotted } ]
    /\ ret = NoCall
    /\ files = << >>
    /\ github = << >>
    /\ manager = ManagerOf({}, {})
    /\ added = << >>
    /\ hash_order = << >>
    /\ comparisons = << >>
    /\ IdleAux

\* A process is started and calls compare_with_exceptions
CompareInNewProcess ==
    /\ call.op = "compare_with_exceptions"
    /\ Len(comparisons) < MaxProcesses
    /\ \E order \in ProcessOrders :
         /\ hash_order' = order
         /\ comparisons' =
                Append(comparisons,
                       compare_with_exceptions(manager, call.license_dependencies,
                                               call.sca_dependencies, order))
    /\ UNCHANGED << main_vars, aux_vars, call, ret, files, github, manager, added >>

NextProcesses == CompareInNewProcess

SpecProcesses == InitProcesses /\ [][NextProcesses]_vars

\* The pairs of a result, as a set
PairsOf(c) == { c.fuzzy_matches[i] : i \in 1..Len(c.fuzzy_matches) }

\* C27: for the same SCA and license names every iteration order gives the
\* same pairs, the same missing and the same extra dependencies, and in a
\* result no license name and no SCA name is in two pairs.
C27_FuzzyMatchingIgnoresOrder ==
    /\ \A c, d \in Compared :
          /\ PairsOf(c) = PairsOf(d)
          /\ c.missing_dependencies = d.missing_dependencies
          /\ c.extra_dependencies = d.extra_dependencies
    /\ \A c \in Compared : \A i, j \in 1..Len(c.fuzzy_matches) :
          i # j => /\ c.fuzzy_matches[i][1] # c.fuzzy_matches[j][1]
                   /\ c.fuzzy_matches[i][2] # c.fuzzy_matches[j][2]

(***************************************************************************)
(* SCAExceptionManager: loading and saving the exception files             *)
(***************************************************************************)
\* The number of names added through add_false_positive / add_false_negative.
MaxAdds == 2

\* An item of an "exceptions" list: an object with a name, a plain string,
\* an object without a name, or an object whose name cannot be hashed.
ObjectItem(name) == [ t |-> "object", name |-> name ]
StringItem(name) == [ t |-> "string", name |-> name ]
NamelessItem == [ t |-> "nameless", name |-> << >> ]
UnhashableItem == [ t |-> "unhashable", name |-> << >> ]

\* A file: missing, unreadable (not JSON, or it cannot be opened), a JSON
\* array, an object without "exceptions", an object whose "exceptions" is
\* not a list, or an object with an "exceptions" list.
File(kind, items) == [ kind |-> kind, items |-> items ]
MissingFile == File("missing", << >>)

LocalContents ==
    { MissingFile,
      File("unreadable", << >>),
      File("array", << StringItem(Dep2) >>),
      File("no_exceptions", << >>),
      File("not_list", << >>),
      File("exceptions", << ObjectItem(Dep2) >>),
      File("exceptions", << ObjectItem(Dep3), StringItem(Dep2), NamelessItem >>),
      File("exceptions", << ObjectItem(Dep2), UnhashableItem >>) }

\* What the repository on GitHub serves for a file: nothing (404, 403, a
\* network error), an empty file, or content.
RemoteContents ==
    { MissingFile,
      File("empty", << >>),
      File("unreadable", << >>),
      File("exceptions", << ObjectItem(Dep3), StringItem(Dep2) >>),
      File("exceptions", << ObjectItem(UpperDep1) >>) }

\* The names of the object items of a list
ItemNames(items) == { items[i].name : i \in { k \in 1..Len(items) : items[k].t = "object" } }

\* An item for which result.add raises
RaisesOnAdd(items) == \E i \in 1..Len(items) : items[i].t = "unhashable"

\* SCAExceptionManager._load_exceptions
_load_exceptions(file) ==
    IF file.kind = "missing" THEN {}
    ELSE IF file.kind = "exceptions"
    THEN IF RaisesOnAdd(file.items) THEN {} ELSE ItemNames(file.items)
    ELSE {}

\* sorted(exceptions): the names in the order of their code points
SortedNames == << UpperDep1, Dep1, Dep2, Dep3, GsonDotted, GsonCoordinate, Gson >>
sorted(names) == SelectSeq(SortedNames, LAMBDA name : name \in names)

\* SCAExceptionManager._save_exceptions: the file written, whose
\* "exceptions" is the sorted list of the names
_save_exceptions(exceptions) ==
    File("exceptions", [ i \in 1..Len(sorted(exceptions)) |-> StringItem(sorted(exceptions)[i]) ])

\* GitHubClient._parse_exceptions_json
_parse_exceptions_json(content) ==
    IF content.kind = "exceptions"
    THEN IF RaisesOnAdd(content.items) THEN {} ELSE ItemNames(content.items)
    ELSE {}

\* GitHubClient.get_file_content: None for a file that cannot be fetched
get_file_content(remote) == IF remote.kind = "missing" THEN "None" ELSE remote.kind

\* GitHubClient.get_sca_exceptions: content that is None or empty is skipped
get_sca_exceptions(gh) ==
    LET Fetched(remote) ==
            IF get_file_content(remote) \in { "None", "empty" } THEN {}
            ELSE _parse_exceptions_json(remote)
    IN  [ failed |-> FALSE,
          false_positives |-> Fetched(gh.false_positives),
          false_negatives |-> Fetched(gh.false_negatives) ]

\* the constructor letting the failure of the GitHub client escape
GithubFailureEscapes == [ failed |-> TRUE, false_positives |-> {}, false_negatives |-> {} ]

\* SCAExceptionManager.__init__, except Exception: the failure is logged and
\* the GitHub sets stay empty
GithubFailureCaught == [ failed |-> FALSE, false_positives |-> {}, false_negatives |-> {} ]

\* SCAExceptionManager.__init__
NewManager(fs, gh) ==
    LET local_fps == _load_exceptions(fs.false_positives)
        local_fns == _load_exceptions(fs.false_negatives)
        github_exceptions ==
            IF gh.requested
            THEN IF ~gh.token THEN GithubFailureCaught ELSE get_sca_exceptions(gh)
            ELSE [ failed |-> FALSE, false_positives |-> {}, false_negatives |-> {} ]
    IN  [ constructed |-> ~github_exceptions.failed,
          false_positives |-> local_fps \cup github_exceptions.false_positives,
          false_negatives |-> local_fns \cup github_exceptions.false_negatives ]

\* SCAExceptionManager.is_false_positive / is_false_negative
is_false_positive(m, dependency) == dependency \in m.false_positives
is_false_negative(m, dependency) == dependency \in m.false_negatives

GithubStates ==
    { [ requested |-> FALSE, token |-> FALSE,
        false_positives |-> MissingFile, false_negatives |-> MissingFile ],
      [ requested |-> TRUE, token |-> FALSE,
        false_positives |-> MissingFile, false_negatives |-> MissingFile ] }
    \cup [ requested : { TRUE }, token : { TRUE },
           false_positives : RemoteContents, false_negatives : RemoteContents ]

InitExceptions ==
    /\ IdleMain
    /\ call = NoCall
    /\ ret = NoCall
    /\ files \in [ false_positives : LocalContents, false_negatives : LocalContents ]
    /\ github \in GithubStates
    /\ manager = NoManager
    /\ added = [ false_positives |-> {}, false_negatives |-> {}, reloaded |-> FALSE ]
    /\ hash_order = << >>
    /\ comparisons = << >>
    /\ IdleAux

\* SCAExceptionManager(repository_root, github_owner, github_repo): a new
\* manager on the same root replaces the one in use
Construct ==
    /\ manager' = NewManager(files, github)
    /\ added' = [ added EXCEPT !.reloaded = TRUE ]
    /\ UNCHANGED << main_vars, aux_vars, call, ret, files, github, hash_order, comparisons >>

\* The names added so far
AddCount == Cardinality(added.false_positives) + Cardinality(added.false_negatives)

\* SCAExceptionManager.add_false_positive
AddFalsePositive ==
    /\ manager.constructed
    /\ AddCount < MaxAdds
    /\ \E dependency \in ExceptionNames :
         /\ manager' = [ manager EXCEPT !.false_positives = @ \cup { dependency } ]
         /\ files' = [ files EXCEPT !.false_positives =
                                        _save_exceptions(manager'.false_positives) ]
         /\ added' = [ added EXCEPT !.false_positives = @ \cup { dependency },
                                    !.reloaded = FALSE ]
    /\ UNCHANGED << main_vars, aux_vars, call, ret, github, hash_order, comparisons >>

\* SCAExceptionManager.add_false_negative
AddFalseNegative ==
    /\ manager.constructed
    /\ AddCount < MaxAdds
    /\ \E dependency \in ExceptionNames :
         /\ manager' = [ manager EXCEPT !.false_negatives = @ \cup { dependency } ]
         /\ files' = [ files EXCEPT !.false_negatives =
                                        _save_exceptions(manager'.false_negatives) ]
         /\ added' = [ added EXCEPT !.false_negatives = @ \cup { dependency },
                                    !.reloaded = FALSE ]
    /\ UNCHANGED << main_vars, aux_vars, call, ret, github, hash_order, comparisons >>

NextExceptions == Construct \/ AddFalsePositive \/ AddFalseNegative

SpecExceptions == InitExceptions /\ [][NextExceptions]_vars

\* C16: once a new manager was constructed on the root after names were
\* added, it reports every added name as false positive, respectively as
\* false negative.
C16_AddedNamesSurviveReload ==
    added.reloaded =>
        /\ \A name \in added.false_positives : is_false_positive(manager, name)
        /\ \A name \in added.false_negatives : is_false_negative(manager, name)


\* The kinds of file that hold no list of exceptions
MalformedKinds == { "unreadable", "empty", "array", "no_exceptions", "not_list" }

\* What a local file contributes according to C17
LocalPart(file) ==
    IF file.kind = "missing" \/ file.kind \in MalformedKinds \/ RaisesOnAdd(file.items)
    THEN {}
    ELSE ItemNames(file.items)

\* What the repository on GitHub contributes according to C17
RemotePart(remote) ==
    IF ~github.requested \/ ~github.token \/ remote.kind = "missing"
       \/ remote.kind \in MalformedKinds \/ RaisesOnAdd(remote.items)
    THEN {}
    ELSE ItemNames(remote.items)

BuildNumberOfContext(ver) ==
    IF Contains(ver, ".") THEN SplitLast(ver, ".") ELSE ver

InitBuildNumber ==
    /\ IdleMain
    /\ call \in [ op : { "start_releasability_checks" }, version : VersionInputs ]
    /\ ret = NoCall
    /\ files = << >>
    /\ github = << >>
    /\ manager = NoManager
    /\ added = << >>
    /\ hash_order = << >>
    /\ comparisons = << >>
    /\ IdleAux

\* start_lambda_checks: the version is validated and the trigger message
\* is built
BuildSnsRequest ==
    /\ call.op = "start_releasability_checks"
    /\ ret = NoCall
    /\ ret' = IF validate_version(call.version)
              THEN [ op |-> "_build_sns_request", raised |-> FALSE,
                     request |-> _build_sns_request("uuid", call.version),
                     build_number |-> << >> ]
              ELSE [ op |-> "_build_sns_request", raised |-> TRUE,
                     request |-> None, build_number |-> << >> ]
    /\ UNCHANGED << main_vars, aux_vars, call, files, github, manager, added, hash_order,
                    comparisons >>

\* execute_inline_checks: CheckLicenses downloads the artifacts of the
\* build of the version
DownloadArtifactsFromBuildInfo ==
    /\ ret.op = "_build_sns_request"
    /\ ~ret.raised
    /\ ret' = [ ret EXCEPT !.op = "download_artifacts_from_build_info",
                           !.build_number = BuildNumberOfContext(call.version) ]
    /\ UNCHANGED << main_vars, aux_vars, call, files, github, manager, added, hash_order,
                    comparisons >>

NextBuildNumber == BuildSnsRequest \/ DownloadArtifactsFromBuildInfo

SpecBuildNumber == InitBuildNumber /\ [][NextBuildNumber]_vars

\* C30: for a version that validate_version accepted, the build number the
\* license check asks the build info for is the decimal text of the build
\* number sent in the trigger message.
C30_SameBuildNumber ==
    ret.op = "download_artifacts_from_build_info" =>
        /\ ret.build_number # << >>
        /\ \A i \in 1..Len(ret.build_number) : ret.build_number[i] \in Digits
        /\ ToInt(ret.build_number) = ret.request.artifactoryBuildNumber

(***************************************************************************)
(* CheckRegistry on its own                                                *)
(***************************************************************************)
\* CheckRegistry.is_inline_check / is_lambda_check
is_inline_check(registry, name) == name \in DOMAIN registry.inline_checks
is_lambda_check(registry, name) == name \in registry.lambda_checks

\* The checks a caller registers: CheckLicenses, and mock checks of the
\* tests under a name of their own or under the name of a lambda check
RegisteredChecks ==
    { CheckLicensesCheck }
    \cup [ name : { "TestCheck", "another_check", "QA", "Jira", "GitHub" },
           class : { "MockInlineCheck", "AnotherInlineCheck" } ]

InitRegistry ==
    /\ IdleMain
    /\ IdleLib

\* CheckRegistry.register_inline_check(check)
RegisterCheck ==
    /\ pc = "idle"
    /\ \E check \in RegisteredChecks :
         check_registry' = register_inline_check(check_registry, check)
    /\ UNCHANGED << pc, lib_vars, input_vars, publishes, correlation_id, inline_todo,
                    inline_results, poll_vars, env_vars, out_vars >>

NextRegistry == RegisterCheck

SpecRegistry == InitRegistry /\ [][NextRegistry]_vars

\* C25: no name is both an inline check and a lambda check, and the lambda
\* checks are the eight names of the constructor.
C25_InlineAndLambdaDisjoint ==
    /\ \A name \in DOMAIN check_registry.inline_checks \cup check_registry.lambda_checks :
          ~(is_inline_check(check_registry, name) /\ is_lambda_check(check_registry, name))
    /\ check_registry.lambda_checks = NewRegistry.lambda_checks

(***************************************************************************)
(* LicenseContentValidator: the text of a license file against the         *)
(* reference texts                                                         *)
(***************************************************************************)

\* longest text of a license file or of a reference file
MaxText == 5

\* the similarity a text must reach, in percent (best_score >= 0.8)
SimilarityThreshold == 80

ALLOWED_LICENSES ==
    { "LGPL-2.1", "LGPL-3.0", "Apache-2.0", "MIT", "BSD-2-Clause", "BSD-3-Clause",
      "EPL-1.0", "EPL-2.0", "PSF-2.0" }

\* re.sub(r'\s+', ' ', ...): every run of whitespace becomes one blank
RECURSIVE CollapseWhitespace(_)
CollapseWhitespace(str) ==
    IF str = << >> THEN << >>
    ELSE IF Head(str) \in Whitespace
         THEN IF Len(str) > 1 /\ str[2] \in Whitespace
              THEN CollapseWhitespace(Tail(str))
              ELSE << " " >> \o CollapseWhitespace(Tail(str))
         ELSE << Head(str) >> \o CollapseWhitespace(Tail(str))

\* LicenseContentValidator._normalize_license_content; the placeholders
\* '[year]', '[fullname]' and '[name of copyright owner]' hold a '[', which no
\* text of LicenseTexts holds, so their replacement leaves these texts alone
_normalize_license_content(content) == lower(CollapseWhitespace(strip(content)))

\* difflib find_longest_match: the blocks a[i..i+k-1] = b[j..j+k-1] as <<i, j, k>>
MatchingBlocks(a, b) ==
    { x \in (1..Len(a)) \X (1..Len(b)) \X (1..Len(a)) :
        /\ x[1] + x[3] - 1 <= Len(a)
        /\ x[2] + x[3] - 1 <= Len(b)
        /\ SubSeq(a, x[1], x[1] + x[3] - 1) = SubSeq(b, x[2], x[2] + x[3] - 1) }

\* the longest block, the earliest in a, then the earliest in b
LongestBlock(blocks) ==
    CHOOSE x \in blocks : \A y \in blocks :
       \/ x[3] > y[3]
       \/ x[3] = y[3] /\ x[1] < y[1]
       \/ x[3] = y[3] /\ x[1] = y[1] /\ x[2] <= y[2]

\* difflib get_matching_blocks: the characters of the matching blocks of a
\* and b, the longest block first, then the same to the left and to the right
\* of it
RECURSIVE MatchingCharacters(_, _)
MatchingAround(a, b, best) ==
    best[3]
    + MatchingCharacters(SubSeq(a, 1, best[1] - 1), SubSeq(b, 1, best[2] - 1))
    + MatchingCharacters(SubSeq(a, best[1] + best[3], Len(a)),
                         SubSeq(b, best[2] + best[3], Len(b)))

MatchingFrom(a, b, blocks) ==
    IF blocks = {} THEN 0 ELSE MatchingAround(a, b, LongestBlock(blocks))

MatchingCharacters(a, b) == MatchingFrom(a, b, MatchingBlocks(a, b))

\* SequenceMatcher(None, a, b).ratio() as the fraction num / den
ratio(a, b) ==
    IF Len(a) + Len(b) = 0 THEN [ num |-> 1, den |-> 1 ]
    ELSE [ num |-> 2 * MatchingCharacters(a, b), den |-> Len(a) + Len(b) ]

GreaterScore(r, s) == r.num * s.den > s.num * r.den

\* _load_reference_licenses: the dictionary of the normalised reference texts,
\* in the order glob yields the files
_load_reference_licenses(dir) ==
    [ i \in 1..Len(dir) |->
        [ name |-> dir[i].name, content |-> _normalize_license_content(dir[i].content) ] ]

HasReference(refs, name) == \E i \in 1..Len(refs) : refs[i].name = name
ReferenceOf(refs, name) == refs[CHOOSE i \in 1..Len(refs) : refs[i].name = name].content

\* one turn of the loop of validate_license_content: a strictly greater
\* similarity replaces the best match
BetterMatch(best, similarity, license_name) ==
    IF GreaterScore(similarity, best.score)
    THEN [ score |-> similarity, match |-> license_name ]
    ELSE best

\* the loop of validate_license_content over the reference texts
RECURSIVE BestMatch(_, _, _, _)
BestMatch(refs, i, normalized_content, best) ==
    IF i > Len(refs) THEN best
    ELSE BestMatch(refs, i + 1, normalized_content,
                   BetterMatch(best, ratio(normalized_content, refs[i].content),
                               refs[i].name))

\* the end of validate_license_content: a best score of 0.8 or more is valid
FuzzyResult(best) ==
    IF 100 * best.score.num >= SimilarityThreshold * best.score.den
    THEN [ is_valid |-> TRUE, score |-> best.score, matched_license |-> best.match ]
    ELSE [ is_valid |-> FALSE, score |-> best.score,
           matched_license |-> IF best.match = None THEN "No match found"
                               ELSE best.match ]

\* validate_license_content after the normalisation: the exact comparison
\* with the reference of the expected license, then the loop
ValidateNormalized(refs, normalized_content, expected_license) ==
    IF /\ HasReference(refs, expected_license)
       /\ normalized_content = ReferenceOf(refs, expected_license)
    THEN [ is_valid |-> TRUE, score |-> [ num |-> 1, den |-> 1 ],
           matched_license |-> expected_license ]
    ELSE FuzzyResult(BestMatch(refs, 1, normalized_content,
                               [ score |-> [ num |-> 0, den |-> 1 ], match |-> None ]))

\* LicenseContentValidator.validate_license_content
validate_license_content(refs, license_content, expected_license) ==
    IF expected_license \notin ALLOWED_LICENSES
    THEN [ is_valid |-> FALSE, score |-> [ num |-> 0, den |-> 1 ],
           matched_license |-> "Unknown license type" ]
    ELSE ValidateNormalized(refs, _normalize_license_content(license_content),
                            expected_license)

\* the texts of the license files: up to MaxText characters
LicenseTexts ==
    UNION { [ 1..n -> { "a", "B", " " } ] : n \in 0..MaxText }

\* the files of the reference directory
ReferenceFiles ==
    { [ name |-> "MIT", content |-> << "A", "a", "a", "a", "a" >> ],
      [ name |-> "Apache-2.0", content |-> << "b", "b", " ", "b", "b" >> ],
      [ name |-> "GPL-3.0", content |-> << "a", "b", "a", "b" >> ] }

\* the directory as glob lists it: missing or empty, one file, or two files
ReferenceDirs ==
    { << >> } \cup { << f >> : f \in ReferenceFiles }
    \cup { << x[1], x[2] >> : x \in { y \in ReferenceFiles \X ReferenceFiles : y[1] # y[2] } }

ExpectedLicenses == { "MIT", "Apache-2.0", "GPL-3.0", "EPL-2.0" }

InitContent ==
    /\ IdleMain
    /\ call \in [ op : { "_validate_and_record_license" },
                  license_content : LicenseTexts,
                  expected_license : ExpectedLicenses,
                  dir : ReferenceDirs ]
    /\ ret = NoCall
    /\ files = << >>
    /\ github = << >>
    /\ manager = NoManager
    /\ added = << >>
    /\ hash_order = << >>
    /\ comparisons = << >>
    /\ IdleAux

\* LicenseContentMatcher._validate_and_record_license: the file is recorded as
\* matched when the validator finds it valid, as a validation error otherwise
ValidateAndRecordLicense ==
    /\ call.op = "_validate_and_record_license"
    /\ ret = NoCall
    /\ \E validation \in { validate_license_content(_load_reference_licenses(call.dir),
                                                      call.license_content,
                                                      call.expected_license) } :
           ret' = [ op |-> "_validate_and_record_license",
                    is_valid |-> validation.is_valid,
                    similarity |-> validation.score,
                    matched_license |-> validation.matched_license,
                    recorded |-> IF validation.is_valid THEN "matched_licenses"
                                 ELSE "validation_errors" ]
    /\ UNCHANGED << main_vars, aux_vars, call, files, github, manager, added, hash_order,
                    comparisons >>

NextContent == ValidateAndRecordLicense

SpecContent == InitContent /\ [][NextContent]_vars

\* C22: a license file found valid has the license its component declares
\* as the matched license.
C22_ValidMeansExpectedLicense ==
    ( ret.op = "_validate_and_record_license" /\ ret.is_valid )
    => ret.matched_license = call.expected_license

(***************************************************************************)
(* LicenseExtractor: the license files of the artifacts and the scratch    *)
(* directories of the extraction                                           *)
(***************************************************************************)

\* most artifacts in one call of validate_artifacts
MaxArtifacts == 2

\* most calls of validate_artifacts on one LPSValidator
MaxValidations == 2

LicenseTxt == << "L", "I", "C", "E", "N", "S", "E", ".", "t", "x", "t" >>
DashLicense == << "-", "L", "I", "C", "E", "N", "S", "E" >>
DotTxt == << ".", "t", "x", "t" >>

MitText == << "A", "a", "a", "a", "a" >>
ApacheText == << "b", "b", " ", "b", "b" >>

\* the files of a licenses/ directory
MainLicenseFile == [ name |-> LicenseTxt, content |-> MitText ]
Dep1LicenseFile == [ name |-> Dep1 \o DashLicense \o DotTxt, content |-> MitText ]
GsonLicenseFile == [ name |-> Gson \o DashLicense \o DotTxt, content |-> ApacheText ]

\* an archive found inside an artifact: its file name and suffix, whether it
\* can be read, the files of its licenses/ directory (none without one),
\* whether it holds a directory without write permission, and the files of
\* the <name>-licenses directory next to it
InnerArchive(file, suffix, corrupt, licenses, read_only) ==
    [ file |-> file, suffix |-> suffix, corrupt |-> corrupt, licenses |-> licenses,
      read_only |-> read_only, dedicated |-> << >> ]

LibZip == InnerArchive("lib.zip", ".zip", FALSE, << GsonLicenseFile >>, FALSE)
NoLicensesZip == InnerArchive("nolic.zip", ".zip", FALSE, << >>, FALSE)
BadZip == InnerArchive("bad.zip", ".zip", TRUE, << >>, FALSE)
DataXz == InnerArchive("data.xz", ".xz", FALSE, << >>, FALSE)
ReadOnlyTgz == InnerArchive("ro.tgz", ".tgz", FALSE, << GsonLicenseFile >>, TRUE)
SideZip ==
    [ InnerArchive("side.zip", ".zip", FALSE, << >>, FALSE)
        EXCEPT !.dedicated = << GsonLicenseFile >> ]

\* an artifact of the build: its name, whether its path exists, its suffix,
\* whether it can be read, the files of its licenses/ directory and the
\* archives inside it, in the order os.walk finds them
Artifact(name, exists, suffix, corrupt, licenses, inner) ==
    [ name |-> name, exists |-> exists, suffix |-> suffix, corrupt |-> corrupt,
      licenses |-> licenses, inner |-> inner ]

Artifacts ==
    { Artifact("app.jar", TRUE, ".jar", FALSE, << MainLicenseFile, Dep1LicenseFile >>, << >>),
      Artifact("plugin.jar", TRUE, ".jar", FALSE, << MainLicenseFile, Dep1LicenseFile >>,
               << NoLicensesZip >>),
      Artifact("bundle.zip", TRUE, ".zip", FALSE, << MainLicenseFile >>,
               << LibZip, ReadOnlyTgz >>),
      Artifact("multi.nupkg", TRUE, ".nupkg", FALSE, << >>, << BadZip, DataXz, SideZip >>),
      Artifact("notes.txt", TRUE, ".txt", FALSE, << >>, << >>),
      Artifact("gone.jar", FALSE, ".jar", FALSE, << >>, << >>),
      Artifact("broken.jar", TRUE, ".jar", TRUE, << >>, << >>) }

\* tempfile.mkdtemp: a new directory; its name is the number made
mkdtemp(sc) == [ sc EXCEPT !.made = @ + 1, !.left = @ \cup { sc.made + 1 } ]

\* shutil.rmtree(dir, ignore_errors=True): the directory is removed unless
\* an entry of it cannot be unlinked, which is then ignored
rmtree(sc, dir, removable) ==
    IF removable THEN [ sc EXCEPT !.left = @ \ { dir } ] ELSE sc

\* the entries of a directory without write permission can be unlinked by the
\* superuser only; tarfile.extractall keeps the permissions of the archive,
\* zipfile.extractall does not
RemovableTree(inner, privileged) ==
    privileged \/ ~(inner.suffix = ".tgz" /\ ~inner.corrupt /\ inner.read_only)

\* LicenseFileDetector._determine_license_type for a file of a licenses/
\* directory
_determine_license_type(file) ==
    IF lower(file) = lower(LicenseTxt) THEN "main" ELSE "third_party"

\* LicenseExtractor._extract_licenses_from_directory
_extract_licenses_from_directory(dir_files, source) ==
    [ i \in 1..Len(dir_files) |->
        [ type |-> _determine_license_type(dir_files[i].name), source |-> source,
          name |-> dir_files[i].name, content |-> dir_files[i].content ] ]

\* LicenseExtractor._is_archive_file
_is_archive_file(inner) == inner.suffix \in { ".zip", ".tgz", ".txz", ".xz", ".nupkg" }

\* the licenses _process_inner_archive reads: none when the format is not
\* supported or the archive cannot be read, else those of the licenses/
\* directory of the archive and of the <name>-licenses directory next to it
InnerLicenses(inner) ==
    IF inner.suffix \notin { ".zip", ".nupkg", ".tgz" } \/ inner.corrupt
    THEN << >>
    ELSE _extract_licenses_from_directory(inner.licenses, "inner")
         \o _extract_licenses_from_directory(inner.dedicated, "dedicated")

\* the finally clause of _process_inner_archive
CleanedInner(made, inner, privileged) ==
    rmtree(made, made.made, RemovableTree(inner, privileged))

\* LicenseExtractor._process_inner_archive: the scratch directory is made,
\* the archive is unpacked and read, the directory is removed
_process_inner_archive(sc, inner, privileged) ==
    [ scratch |-> CleanedInner(mkdtemp(sc), inner, privileged),
      licenses |-> InnerLicenses(inner) ]

\* the extractor after an inner archive: one without licenses is noted
AfterInnerArchive(st, done, file) ==
    [ st EXCEPT !.scratch = done.scratch,
                !.extractor.non_compliant_inner_archives =
                    IF done.licenses = << >> THEN Append(@, file) ELSE @ ]

\* licenses.extend(inner_licenses), seen from the end of the loop
WithLicensesBefore(licenses, rest) == [ rest EXCEPT !.licenses = licenses \o @ ]

\* LicenseExtractor._extract_from_inner_archives from the i-th archive on
RECURSIVE _extract_from_inner_archives(_, _, _, _)
InnerArchiveTurn(st, inner, i, privileged, done) ==
    WithLicensesBefore(done.licenses,
                       _extract_from_inner_archives(
                           AfterInnerArchive(st, done, inner[i].file),
                           inner, i + 1, privileged))

_extract_from_inner_archives(st, inner, i, privileged) ==
    IF i > Len(inner) THEN [ st EXCEPT !.licenses = << >> ]
    ELSE IF ~_is_archive_file(inner[i])
         THEN _extract_from_inner_archives(st, inner, i + 1, privileged)
         ELSE InnerArchiveTurn(st, inner, i, privileged,
                               _process_inner_archive(st.scratch, inner[i], privileged))

\* LicenseExtractor._extract_from_archive with the scratch directory made
_extract_from_archive(began, artifact, privileged) ==
    IF artifact.suffix \notin { ".jar", ".zip", ".nupkg" } \/ artifact.corrupt
    THEN [ began EXCEPT !.licenses = << >> ]
    ELSE WithLicensesBefore(
             _extract_licenses_from_directory(artifact.licenses, "main"),
             _extract_from_inner_archives(began, artifact.inner, 1, privileged))

\* the scratch directory of an artifact is made and noted in the extractor
BeginExtraction(st, made) ==
    [ st EXCEPT !.scratch = made, !.extractor.temp_dir = made.made ]

\* the finally clause of _extract_licenses_from_artifact
EndExtraction(read, dir) == [ read EXCEPT !.scratch = rmtree(@, dir, TRUE) ]

\* LicenseExtractor._extract_licenses_from_artifact
_extract_licenses_from_artifact(st, artifact, privileged) ==
    IF ~artifact.exists THEN [ st EXCEPT !.licenses = << >> ]
    ELSE EndExtraction(
             _extract_from_archive(BeginExtraction(st, mkdtemp(st.scratch)), artifact,
                                   privileged),
             st.scratch.made + 1)

\* results[artifact_name] = licenses
StoreLicenses(one, artifact_name) ==
    [ one EXCEPT !.results =
        [ name \in DOMAIN @ \cup { artifact_name } |->
            IF name = artifact_name THEN one.licenses ELSE @[name] ] ]

\* LicenseExtractor.extract_licenses_from_artifacts from the i-th artifact on:
\* results maps the names of the artifacts to their license records
RECURSIVE extract_licenses_from_artifacts(_, _, _, _)
extract_licenses_from_artifacts(st, artifacts, i, privileged) ==
    IF i > Len(artifacts) THEN st
    ELSE extract_licenses_from_artifacts(
             StoreLicenses(_extract_licenses_from_artifact(st, artifacts[i], privileged),
                           artifacts[i].name),
             artifacts, i + 1, privileged)

(***************************************************************************)
(* LicenseComparator and LPSValidator                                      *)
(***************************************************************************)

\* LPSValidator.__init__: a new extractor; nothing was extracted yet
NewValidation(sc) ==
    [ extractor |-> NewExtractor, scratch |-> sc, licenses |-> << >>, results |-> << >> ]

\* str.replace(sub, ''): every occurrence of sub is cut out, from the left
RECURSIVE RemoveAll(_, _)
RemoveAll(str, sub) ==
    IF Len(str) < Len(sub) THEN str
    ELSE IF SubSeq(str, 1, Len(sub)) = sub
         THEN RemoveAll(SubSeq(str, Len(sub) + 1, Len(str)), sub)
         ELSE << Head(str) >> \o RemoveAll(Tail(str), sub)

\* LicenseContentMatcher._extract_dependency_name_from_license_file; the
\* caller treats None and the empty name alike, both are << >> here
_extract_dependency_name_from_license_file(filename) ==
    LET name == RemoveAll(filename, DotTxt)
    IN  IF endswith(name, DashLicense) THEN SubSeq(name, 1, Len(name) - 8) ELSE << >>

\* re.sub(r'[^a-zA-Z0-9]', '', name.lower())
RECURSIVE AlphanumericOnly(_)
AlphanumericOnly(str) ==
    IF str = << >> THEN << >>
    ELSE IF \/ Head(str) \in Digits
            \/ \E k \in 1..Len(LowerCase) : LowerCase[k] = Head(str)
            \/ \E k \in 1..Len(UpperCase) : UpperCase[k] = Head(str)
         THEN << Head(str) >> \o AlphanumericOnly(Tail(str))
         ELSE AlphanumericOnly(Tail(str))

\* LicenseContentMatcher._names_match
_names_match(name1, name2) ==
    AlphanumericOnly(lower(name1)) = AlphanumericOnly(lower(name2))

\* LicenseContentMatcher._build_component_licenses_map: the components that
\* declare a license, in the order of the SBOM
_build_component_licenses_map(sbom_components) ==
    SelectSeq(sbom_components, LAMBDA component : component.licenses # << >>)

\* LicenseContentMatcher._find_matching_component: the index of the first
\* component whose name matches, 0 without one
_find_matching_component(dependency_name, component_licenses) ==
    LET found == { i \in 1..Len(component_licenses) :
                     _names_match(dependency_name, component_licenses[i].name) }
    IN  IF found = {} THEN 0 ELSE CHOOSE i \in found : \A j \in found : i <= j

\* the third-party license records of all artifacts
ThirdPartyLicenses(extracted_licenses) ==
    { license \in UNION { { extracted_licenses[name][i] :
                              i \in 1..Len(extracted_licenses[name]) } :
                          name \in DOMAIN extracted_licenses } :
        license.type = "third_party" }

\* LicenseContentMatcher._validate_and_record_license for the component found
RecordValidation(is_valid, component_name) ==
    IF is_valid
    THEN [ recorded |-> "matched_licenses", component_name |-> component_name ]
    ELSE [ recorded |-> "validation_errors", component_name |-> component_name ]

\* _process_single_license_file after _find_matching_component
ProcessFound(license_file, found, component_licenses, refs) ==
    IF found = 0
    THEN [ recorded |-> "unmatched_licenses", component_name |-> << >> ]
    ELSE RecordValidation(
             validate_license_content(refs, license_file.content,
                                      component_licenses[found].licenses[1]).is_valid,
             component_licenses[found].name)

\* _process_single_license_file after the dependency name was extracted
ProcessNamed(license_file, dependency_name, component_licenses, refs) ==
    IF dependency_name = << >>
    THEN [ recorded |-> "validation_errors", component_name |-> << >> ]
    ELSE ProcessFound(license_file,
                      _find_matching_component(dependency_name, component_licenses),
                      component_licenses, refs)

\* LicenseContentMatcher._process_single_license_file: where the record goes
\* and with which component
_process_single_license_file(license_file, component_licenses, refs) ==
    ProcessNamed(license_file,
                 _extract_dependency_name_from_license_file(license_file.name),
                 component_licenses, refs)

\* LicenseContentMatcher._process_license_files
_process_license_files(licenses, component_licenses, refs) ==
    { [ file |-> license.name,
        to |-> _process_single_license_file(license, component_licenses, refs) ] :
      license \in licenses }

RecordedAs(processed, kind) == { r \in processed : r.to.recorded = kind }

\* coverage_percentage of match_licenses_to_components as a fraction
MatchedCoverage(matched, total_components) ==
    IF total_components > 0
    THEN [ num |-> 100 * Cardinality(matched), den |-> total_components ]
    ELSE [ num |-> 0, den |-> 1 ]

\* the results of match_licenses_to_components from the processed files
MatchingResults(processed, component_names) ==
    [ matched_licenses |->
          { r.to.component_name : r \in RecordedAs(processed, "matched_licenses") },
      matched_files |-> { r.file : r \in RecordedAs(processed, "matched_licenses") },
      validation_errors |-> { r.file : r \in RecordedAs(processed, "validation_errors") },
      coverage_percentage |->
          MatchedCoverage(
              { r.to.component_name : r \in RecordedAs(processed, "matched_licenses") },
              Cardinality(component_names)) ]

ComponentNames(components) == { components[i].name : i \in 1..Len(components) }

\* LicenseContentMatcher.match_licenses_to_components
match_licenses_to_components(extracted_licenses, sbom_components, refs) ==
    MatchingResults(
        _process_license_files(ThirdPartyLicenses(extracted_licenses),
                               _build_component_licenses_map(sbom_components), refs),
        ComponentNames(_build_component_licenses_map(sbom_components)))

\* the results of compare_licenses_with_sbom from the matching
ComparisonResults(matching_results, all_sbom_components, all_license_files) ==
    [ missing_licenses |-> all_sbom_components \ matching_results.matched_licenses,
      extra_licenses |-> all_license_files \ matching_results.matched_files,
      matched_licenses |-> matching_results.matched_licenses,
      validation_errors |-> matching_results.validation_errors,
      coverage_percentage |-> matching_results.coverage_percentage,
      false_positives_used |-> {},
      false_negatives_used |-> {},
      is_compliant |->
          /\ all_sbom_components \ matching_results.matched_licenses = {}
          /\ matching_results.validation_errors = {}
          /\ matching_results.coverage_percentage.num
                 >= 100 * matching_results.coverage_percentage.den ]

\* LicenseComparator.compare_licenses_with_sbom: the exception manager m of
\* the comparator is not read
compare_licenses_with_sbom(m, sbom_components, extracted_licenses, refs) ==
    ComparisonResults(
        match_licenses_to_components(extracted_licenses, sbom_components, refs),
        ComponentNames(sbom_components),
        { license.name : license \in ThirdPartyLicenses(extracted_licenses) })

\* LPSValidator._check_lps_compliance, one turn of its loop: the issues
\* found for one artifact
IssuesOf(ex, artifact_name, licenses) ==
    ( IF \E i \in 1..Len(licenses) : licenses[i].type = "main" THEN << >>
      ELSE << [ artifact |-> artifact_name, issue |-> "Missing main LICENSE.txt" ] >> )
    \o ( IF \E i \in 1..Len(licenses) : licenses[i].type = "third_party" THEN << >>
         ELSE << [ artifact |-> artifact_name,
                   issue |-> "No third-party licenses found" ] >> )
    \o ( IF licenses # << >> THEN << >>
         ELSE << [ artifact |-> artifact_name,
                   issue |-> "No licenses/ directory found" ] >> )
    \o [ i \in 1..Len(ex.non_compliant_inner_archives) |->
           [ artifact |-> artifact_name, issue |-> "Inner archive",
             archive |-> ex.non_compliant_inner_archives[i] ] ]

\* LPSValidator._check_lps_compliance from the i-th artifact on
RECURSIVE _check_lps_compliance(_, _, _, _)
_check_lps_compliance(ex, extracted_licenses, names, i) ==
    IF i > Len(names) THEN << >>
    ELSE IssuesOf(ex, names[i], extracted_licenses[names[i]])
         \o _check_lps_compliance(ex, extracted_licenses, names, i + 1)

\* the issues validate_artifacts adds for the comparison with the SBOM
SbomIssues(comparison) ==
    IF ~comparison.compared THEN << >>
    ELSE ( IF comparison.missing_licenses # {}
           THEN << [ artifact |-> None, issue |-> "Missing licenses" ] >>
           ELSE << >> )
         \o ( IF comparison.coverage_percentage.num
                     < 80 * comparison.coverage_percentage.den
              THEN << [ artifact |-> None, issue |-> "Low license coverage" ] >>
              ELSE << >> )

\* the comparison of validate_artifacts: none without an SBOM
SbomComparison(m, sbom_data, extracted_licenses, refs) ==
    IF ~sbom_data.given THEN [ compared |-> FALSE ]
    ELSE [ compared |-> TRUE ]
         @@ compare_licenses_with_sbom(m, sbom_data.components, extracted_licenses, refs)

\* the results dictionary of validate_artifacts
ValidationResults(extracted, issues, comparison) ==
    [ extractor |-> extracted.extractor,
      scratch |-> extracted.scratch,
      results |-> [ lps_compliant |-> issues = << >>,
                    artifacts_processed |-> Cardinality(DOMAIN extracted.results),
                    licenses_extracted |-> extracted.results,
                    sbom_comparison |-> comparison,
                    issues |-> issues ] ]

\* validate_artifacts after the extraction
ValidateExtracted(extracted, names, comparison) ==
    ValidationResults(
        extracted,
        _check_lps_compliance(extracted.extractor, extracted.results, names, 1)
            \o SbomIssues(comparison),
        comparison)

\* validate_artifacts with the licenses extracted
CompareExtracted(extracted, m, names, sbom_data, refs) ==
    ValidateExtracted(extracted, names,
                      SbomComparison(m, sbom_data, extracted.results, refs))

\* LPSValidator.validate_artifacts on the validator and the file system of
\* st: the validator and file system it leaves, and its results
validate_artifacts(st, m, artifacts, sbom_data, refs, privileged) ==
    CompareExtracted(
        extract_licenses_from_artifacts(
            [ st EXCEPT !.results = << >>, !.licenses = << >> ], artifacts, 1, privileged),
        m, [ i \in 1..Len(artifacts) |-> artifacts[i].name ], sbom_data, refs)

\* the reference texts of the license check
LicenseReferences ==
    _load_reference_licenses(<< [ name |-> "MIT", content |-> MitText ],
                                [ name |-> "Apache-2.0", content |-> ApacheText ] >>)

\* the artifacts of one call: up to MaxArtifacts different ones
ArtifactLists ==
    { list \in UNION { [ 1..n -> Artifacts ] : n \in 1..MaxArtifacts } :
        \A i, j \in 1..Len(list) : i # j => list[i] # list[j] }

Component(name, licenses) == [ name |-> name, licenses |-> licenses ]

\* no SBOM was given to validate_artifacts
NoSbom == [ given |-> FALSE, components |-> << >> ]

\* the SBOM of the project: none, or its components
SbomInputs ==
    { NoSbom,
      [ given |-> TRUE, components |-> << Component(Dep1, << "MIT" >>) >> ],
      [ given |-> TRUE, components |-> << Component(Dep1, << "MIT" >>),
                                          Component(Gson, << "Apache-2.0" >>) >> ] }

InitLicenses ==
    /\ IdleMain
    /\ call = NoCall
    /\ ret = NoCall
    /\ files = << >>
    /\ github = << >>
    /\ manager \in { ManagerOf(fps, {}) : fps \in { {}, { Dep1 }, { Gson } } }
    /\ added = << >>
    /\ hash_order = << >>
    /\ comparisons = << >>
    /\ extractor = NewExtractor
    /\ scratch \in { [ NoScratch EXCEPT !.superuser = b ] : b \in BOOLEAN }
    /\ other_run = NoOtherRun

\* LPSValidator.validate_artifacts(artifacts, sbom_data) on the validator in use
ValidateArtifacts ==
    /\ Len(comparisons) < MaxValidations
    /\ \E artifacts \in ArtifactLists, sbom_data \in SbomInputs :
         \E done \in { validate_artifacts(
                          [ extractor |-> extractor, scratch |-> scratch,
                            licenses |-> << >>, results |-> << >> ],
                          manager, artifacts, sbom_data, LicenseReferences,
                          scratch.superuser) } :
             /\ call' = [ op |-> "validate_artifacts", artifacts |-> artifacts,
                          sbom_data |-> sbom_data ]
             /\ ret' = [ op |-> "validate_artifacts", results |-> done.results ]
             /\ extractor' = done.extractor
             /\ scratch' = done.scratch
             /\ comparisons' = Append(comparisons, "validate_artifacts")
    /\ UNCHANGED << main_vars, files, github, manager, added, hash_order, other_run >>

NextLicenses == ValidateArtifacts

SpecLicenses == InitLicenses /\ [][NextLicenses]_vars

\* C21: a component of the SBOM that is listed as a false positive is not
\* among the missing licenses of the license check.
C21_FalsePositiveNeverMissing ==
    ( ret.op = "validate_artifacts" /\ call.sbom_data.given )
    => \A i \in 1..Len(call.sbom_data.components) :
         call.sbom_data.components[i].name \in get_false_positives(manager)
         => call.sbom_data.components[i].name
                \notin ret.results.sbom_comparison.missing_licenses

\* C23: when the extraction has returned, no scratch directory is left.
C23_NoScratchDirectoryLeft ==
    ret.op = "validate_artifacts" => scratch.left = {}

\* the issues a call reports in the turn of one artifact
IssuesFor(issues, artifact_name) ==
    SelectSeq(issues, LAMBDA issue : issue.artifact = artifact_name)

\* C24: the license records and the issues of an artifact are those a new
\* validator gives for this artifact alone.
C24_ArtifactsAreIndependent ==
    ret.op = "validate_artifacts"
    => \A i \in 1..Len(call.artifacts) :
         LET alone == validate_artifacts(NewValidation(scratch), manager,
                                         << call.artifacts[i] >>, NoSbom,
                                         LicenseReferences, scratch.superuser).results
             name == call.artifacts[i].name
         IN  /\ ret.results.licenses_extracted[name] = alone.licenses_extracted[name]
             /\ IssuesFor(ret.results.issues, name) = IssuesFor(alone.issues, name)

(***************************************************************************)
(* CheckLicenses.execute                                                   *)
(***************************************************************************)

\* the environment of the action: a variable that is not set reads as ""
Environments == [ SONAR_PROJECT_KEY : { "", "my_project" }, ARTIFACTORY_TOKEN : { "", "token" } ]

\* what Artifactory.download_artifacts_from_build_info does: it raises an
\* ArtifactoryError or returns the artifacts of the build, possibly none
Downloads ==
    { [ raises |-> TRUE, artifacts |-> << >> ], [ raises |-> FALSE, artifacts |-> << >> ] }
    \cup { [ raises |-> FALSE, artifacts |-> list ] : list \in ArtifactLists }

\* CheckLicenses._create_error_result
_create_error_result(message) ==
    [ op |-> "execute", raised |-> FALSE, name |-> "CheckLicenses", state |-> CHECK_ERROR,
      message |-> message, details |-> << >> ]

\* execute without its try statement: the exception leaves execute
ExceptionEscapes(message) ==
    [ op |-> "execute", raised |-> TRUE, name |-> None, state |-> None,
      message |-> message, details |-> << >> ]

\* the except clause of CheckLicenses.execute: an exception raised in the
\* body becomes an ERROR result
ExceptionCaught(message) == _create_error_result(message)

\* CheckLicenses._build_detailed_information; an empty value stands for a
\* key the code leaves out
_build_detailed_information(artifacts, validation_results) ==
    IF ~validation_results.sbom_comparison.compared
    THEN [ artifacts |-> [ i \in 1..Len(artifacts) |-> artifacts[i].name ] ]
    ELSE [ artifacts |-> [ i \in 1..Len(artifacts) |-> artifacts[i].name ],
           missing_licenses |-> validation_results.sbom_comparison.missing_licenses,
           license_mismatches |-> validation_results.sbom_comparison.validation_errors,
           sbom_coverage |-> validation_results.sbom_comparison.coverage_percentage ]

\* the end of execute: PASSED when the validation found the artifacts
\* compliant, FAILED otherwise
ValidationOutcome(done, artifacts) ==
    [ done EXCEPT !.results =
        [ op |-> "execute", raised |-> FALSE, name |-> "CheckLicenses",
          state |-> IF done.results.lps_compliant THEN CHECK_PASSED ELSE CHECK_FAILED,
          message |-> IF done.results.lps_compliant THEN "LPS validation passed"
                      ELSE "LPS validation failed",
          details |-> _build_detailed_information(artifacts, done.results) ] ]

\* CheckLicenses.execute(context) for the instance self: what it returns, and
\* the validator and file system it leaves; download, sbom_data and fault are
\* what Artifactory and SonarQube answer and whether reading the downloaded
\* files raises
execute(self, env, st, download, sbom_data, fault) ==
    IF env.SONAR_PROJECT_KEY = ""
    THEN [ st EXCEPT !.results =
             [ op |-> "execute", raised |-> FALSE, name |-> "CheckLicenses",
               state |-> CHECK_PASSED, message |-> "License check bypassed",
               details |-> << >> ] ]
    ELSE IF ~self.artifactory
    THEN [ st EXCEPT !.results = _create_error_result("Artifactory not configured") ]
    ELSE IF download.raises
    THEN [ st EXCEPT !.results = ExceptionCaught("License check error") ]
    ELSE IF download.artifacts = << >>
    THEN [ st EXCEPT !.results =
             [ op |-> "execute", raised |-> FALSE, name |-> "CheckLicenses",
               state |-> CHECK_FAILED, message |-> "No artifacts found for download",
               details |-> << >> ] ]
    ELSE IF fault
    THEN [ st EXCEPT !.results = ExceptionCaught("License check error") ]
    ELSE ValidationOutcome(
             validate_artifacts(st, self.manager, download.artifacts, sbom_data,
                                LicenseReferences, st.scratch.superuser),
             download.artifacts)

InitCheckLicenses ==
    /\ IdleMain
    /\ call \in [ op : { "__init__" }, env : Environments ]
    /\ ret = NoCall
    /\ files = << >>
    /\ github = << >>
    /\ manager = ManagerOf({}, {})
    /\ added = << >>
    /\ hash_order = << >>
    /\ comparisons = << >>
    /\ extractor = NewExtractor
    /\ scratch \in { [ NoScratch EXCEPT !.superuser = b ] : b \in BOOLEAN }
    /\ other_run = NoOtherRun

\* CheckLicenses.__init__: the Artifactory client exists when the token is
\* set; a new LPSValidator
NewCheckLicenses ==
    /\ call.op = "__init__"
    /\ call' = [ op |-> "execute", env |-> call.env,
                 self |-> [ artifactory |-> call.env.ARTIFACTORY_TOKEN # "",
                            manager |-> manager ] ]
    /\ ret' = [ op |-> "__init__" ]
    /\ extractor' = NewExtractor
    /\ UNCHANGED << main_vars, files, github, manager, added, hash_order, comparisons,
                    scratch, other_run >>

\* CheckLicenses.execute(context)
Execute ==
    /\ call.op = "execute"
    /\ ret.op = "__init__"
    /\ \E download \in Downloads, sbom_data \in SbomInputs, fault \in BOOLEAN :
         \E done \in { execute(call.self, call.env,
                                [ extractor |-> extractor, scratch |-> scratch,
                                  licenses |-> << >>, results |-> << >> ],
                                download, sbom_data, fault) } :
             /\ ret' = done.results
             /\ extractor' = done.extractor
             /\ scratch' = done.scratch
    /\ UNCHANGED << main_vars, call, files, github, manager, added, hash_order,
                    comparisons, other_run >>

NextCheckLicenses == NewCheckLicenses \/ Execute

SpecCheckLicenses == InitCheckLicenses /\ [][NextCheckLicenses]_vars

MaxOtherPolls == 2

\* the polling loop of the other run as _get_check_results starts it
OtherRunPolling ==
    [ polling |-> TRUE, polls |-> 0, checks_awaiting_result |-> _get_checks,
      received_check_results |-> << >> ]

InitTwoRuns ==
    /\ InitPollRun
    /\ call = NoCall
    /\ ret = NoCall
    /\ files = << >>
    /\ github = << >>
    /\ manager = NoManager
    /\ added = << >>
    /\ hash_order = << >>
    /\ comparisons = << >>
    /\ extractor = NewExtractor
    /\ scratch = NoScratch
    /\ other_run = OtherRunPolling

\* One iteration of the loop of _get_check_results in the other run: the
\* same code with the other correlation id, on the same queue
OtherRunFetchCheckResults ==
    /\ other_run.polling
    /\ other_run.polls < MaxOtherPolls
    /\ Cardinality(other_run.checks_awaiting_result) > 0
    /\ \E batch \in Receivable(queue) :
         LET current == current_messages(batch, OtherRun)
             after == RecordResults(relevant_messages(current),
                                    other_run.checks_awaiting_result,
                                    other_run.received_check_results)
         IN  /\ queue' = _delete_messages(queue, current)
             /\ other_run' = [ other_run EXCEPT !.polls = @ + 1,
                                                !.checks_awaiting_result = after[1],
                                                !.received_check_results = after[2] ]
    /\ UNCHANGED << pc, input_vars, check_registry, publishes, correlation_id,
                    inline_todo, inline_results, checks_awaiting_result,
                    received_check_results, unfiltered_messages, clock, next_worker,
                    extras, out_vars, call, ret, files, github, manager, added,
                    hash_order, comparisons, extractor, scratch >>

NextTwoRuns ==
    \/ NextPoll
    \/ OtherRunFetchCheckResults

SpecTwoRuns == InitTwoRuns /\ [][NextTwoRuns]_vars

LiveSpecTwoRuns == SpecTwoRuns /\ FairPoll

\* the messages of q that are not in r
Removed(q, r) ==
    { q[i] : i \in { j \in 1..Len(q) : \A k \in 1..Len(r) : r[k].id # q[j].id } }

\* a result of this run that was delivered is on the queue, or its check is
\* not awaited any more
OwnResultsNotLost ==
    \A k \in 1..next_worker :
       \/ \E i \in 1..Len(queue) : queue[i].id = k
       \/ WorkerOrder[k] \notin checks_awaiting_result

\* a step removes a message of a run from the queue only if it is a poll of
\* that run
OnlyOwnMessagesRemoved ==
    \A m \in Removed(queue, queue') :
       IF m.requestUUID = OtherRun
       THEN other_run'.polls = other_run.polls + 1
       ELSE other_run' = other_run /\ m.requestUUID = correlation_id

\* a poll of this run records results of messages of this run only
OnlyOwnMessagesRecorded ==
    Len(received_check_results') > Len(received_check_results)
    => \A i \in (Len(received_check_results) + 1)..Len(received_check_results') :
         \E k \in 1..Len(unfiltered_messages') :
            /\ unfiltered_messages'[k].requestUUID = correlation_id
            /\ received_check_results'[i]
                 = ReleasabilityCheckResult(unfiltered_messages'[k].checkName,
                                            unfiltered_messages'[k].type,
                                            IF unfiltered_messages'[k].message # Absent
                                            THEN unfiltered_messages'[k].message
                                            ELSE None)

\* C28 as amended: no run deletes or records a message of the other run, no
\* delivered result of this run is lost, and once the polls of this run have
\* fetched all its results it reaches COMPLETE.
C28_RunsDoNotInterfere ==
    /\ []OwnResultsNotLost
    /\ [][OnlyOwnMessagesRemoved]_vars
    /\ [][OnlyOwnMessagesRecorded]_vars
    /\ []((pc = "poll" /\ checks_awaiting_result = {}) => <>Returned)

\* this run returned its results although the other run has polled the queue
\* and consumed a message of its own in between
C28_Witness ==
    /\ Returned
    /\ other_run.polls > 0
    /\ Len(other_run.received_check_results) > 0

\* C28: once all results of the run are delivered before its timeout, the run
\* reaches COMPLETE.
C28_DeliveredResultsLeadToComplete ==
    []( ( /\ pc = "poll"
          /\ next_worker = Len(WorkerOrder)
          /\ ~has_exceeded_timeout(clock, 0, FETCH_CHECK_RESULT_TIMEOUT_SECONDS) )
        => <>Returned )

====
